---- MODULE Spec2Model ----
(***************************************************************************)
(* Streaming chat state machine of foundry-agent-webapp.                   *)
(*                                                                         *)
(*   appReducer      frontend/src/reducers/appReducer.ts  (lines 17-261)   *)
(*   ChatService     same file, lines 302-795                              *)
(*   initialAppState same file, lines 857-874                              *)
(*   SSE endpoint    src/unnamed/part_001 (MapPost /api/chat/stream)       *)
(*                                                                         *)
(* JavaScript runs one task at a time; every `await` of ChatService is a   *)
(* point where another call or continuation may run.  Each action below is *)
(* one run of code between two such points.                                *)
(***************************************************************************)
EXTENDS Integers, Sequences, FiniteSets, TLC

VARIABLES
    state,                \* AppState: the value held by the reducer
    currentStreamAbort,   \* ChatService.currentStreamAbort: 0 = undefined, else a controller
    streamCancelled,      \* ChatService.streamCancelled
    aborted,              \* the AbortControllers whose signal has fired
    turns,                \* one record per sendMessage / sendMcpApproval invocation
    now,                  \* Date.now()
    budget,               \* what the run may still use of the model's bounds
    emitted,              \* the intents dispatched by the last step, in order
    op,                   \* the operation or continuation that made the last step
    sse,                  \* one response body seen as bytes, and the read loop's buffer
    endpoint              \* one request as the /api/chat/stream endpoint handles it

vars == <<state, currentStreamAbort, streamCancelled, aborted, turns, now,
          budget, emitted, op, sse, endpoint>>

----------------------------------------------------------------------------
(* Bounds of the model. *)

MaxTurns == 2
MaxEvents == 2
MaxStreamEvents == 4
MaxBatch == 2
MaxClock == 3
MaxControls == 1
MaxFaultyTurns == 1
MaxFileTurns == 1
MaxFileEvents == 1
MaxNoise == 1
MaxNoiseEvents == 3
MaxRecords == 2
MaxRecordLen == 2
MaxEmptyReads == 1
MaxIntentMessages == 2
MaxItems == 3
MaxSkew == 1
MaxEarly == 1
MaxReleaseFailures == 1

(* Program constant: retryWithBackoff(..., 3, 1000). *)
MaxAttempts == 3

Turns == 1..MaxTurns

(* JavaScript null / undefined, kept apart from every real string. *)
Null == "<null>"
Undefined == "<undefined>"

(* The operands of `a || b`: null, undefined and "" are falsy. *)
Falsy(x) == x \in {Null, Undefined, ""}
OrElse(a, b) == IF Falsy(a) THEN b ELSE a

ChunkTexts == {"Hel", "lo"}
MessageText == "Hi"

RECURSIVE SeqConcat(_)
(* Concatenation of a sequence of strings. *)
SeqConcat(s) == IF s = <<>> THEN "" ELSE s[1] \o SeqConcat(Tail(s))

----------------------------------------------------------------------------
(* Application state and reducer. *)

NoApproval == [id |-> Undefined, previousResponseId |-> Undefined]

(* chat.error = null.  An AppError is a record of the same shape: its code, *)
(* its recoverable flag and its retry action (0 when it has none, else the  *)
(* sendMessage invocation whose arguments the action re-sends).             *)
NoError == [code |-> Null, recoverable |-> FALSE, retry |-> 0]

initialAppState ==
    [auth |-> [status |-> "initializing", error |-> Null],
     chat |-> [status |-> "idle",
               messages |-> <<>>,
               currentConversationId |-> Null,
               lastResponseId |-> Null,
               error |-> NoError,
               streamingMessageId |-> Undefined],
     ui   |-> [chatInputEnabled |-> TRUE]]

(* findIndex: the first index whose message has the id, 0 for -1. *)
FindIndex(messages, id) ==
    IF \E i \in 1..Len(messages) : messages[i].id = id
    THEN CHOOSE i \in 1..Len(messages) :
            /\ messages[i].id = id
            /\ \A j \in 1..(i - 1) : messages[j].id # id
    ELSE 0

ReduceAuthInitialized(s, a) ==
    [s EXCEPT !.auth = [status |-> "authenticated", error |-> Null]]

ReduceAuthTokenExpired(s, a) ==
    [s EXCEPT !.auth.status = "unauthenticated"]

ReduceSendMessage(s, a) ==
    [s EXCEPT !.chat.status = "sending",
              !.chat.messages = Append(@, a.message)]

(* new Date().toISOString() for the clock reading date. *)
toISOString(date) == ToString(date)

(* The case reads the clock (more.time, lines 61-63): date is that reading. *)
ReduceAddAssistantMessage(s, a, date) ==
    [s EXCEPT !.chat.messages =
        Append(@, [id |-> a.messageId, role |-> "assistant", content |-> "",
                   time |-> toISOString(date),
                   attachments |-> Undefined, annotations |-> <<>>,
                   usage |-> Undefined, mcpApproval |-> NoApproval])]

(* CHAT_START_STREAM that takes the conversation id as given. *)
MutStartStreamTakesConversation(s, a) ==
    [s EXCEPT !.chat.status = "streaming",
              !.chat.currentConversationId = a.conversationId,
              !.chat.streamingMessageId = a.messageId,
              !.chat.error = NoError,
              !.ui.chatInputEnabled = FALSE]

(* CHAT_START_STREAM without the input lock. *)
MutStartStreamKeepsInput(s, a) ==
    [s EXCEPT !.chat.status = "streaming",
              !.chat.currentConversationId = OrElse(a.conversationId, @),
              !.chat.streamingMessageId = a.messageId,
              !.chat.error = NoError]

ReduceStartStream(s, a) ==
    [s EXCEPT !.chat.status = "streaming",
              !.chat.currentConversationId = OrElse(a.conversationId, @),
              !.chat.streamingMessageId = a.messageId,
              !.chat.error = NoError,
              !.ui.chatInputEnabled = FALSE]

(* CHAT_STREAM_CHUNK that opens a message when none has the id. *)
MutStreamChunkInsertsMissing(s, a) ==
    LET i == FindIndex(s.chat.messages, a.messageId) IN
    IF i = 0
    THEN [s EXCEPT !.chat.messages =
             Append(@, [id |-> a.messageId, role |-> "assistant",
                        content |-> a.content, time |-> Undefined,
                        attachments |-> Undefined,
                        annotations |-> <<>>, usage |-> Undefined,
                        mcpApproval |-> NoApproval])]
    ELSE [s EXCEPT !.chat.messages[i].content = @ \o a.content]

ReduceStreamChunk(s, a) ==
    LET i == FindIndex(s.chat.messages, a.messageId) IN
    IF i = 0 THEN s
    ELSE [s EXCEPT !.chat.messages[i].content = @ \o a.content]

ReduceStreamAnnotations(s, a) ==
    LET i == FindIndex(s.chat.messages, a.messageId) IN
    IF i = 0 THEN s
    ELSE [s EXCEPT !.chat.messages[i].annotations = @ \o a.annotations]

(* CHAT_MCP_APPROVAL_REQUEST that leaves the input as it was. *)
MutApprovalRequestKeepsInput(s, a) ==
    [s EXCEPT !.chat.messages =
                  Append(@, [id |-> "approval-" \o a.messageId,
                             role |-> "approval", content |-> "",
                             time |-> Undefined,
                             attachments |-> Undefined, annotations |-> <<>>,
                             usage |-> Undefined,
                             mcpApproval |->
                                 [id |-> a.approvalRequest,
                                  previousResponseId |->
                                      OrElse(a.previousResponseId, "")]]),
              !.chat.status = "idle"]

ReduceMcpApprovalRequest(s, a) ==
    LET approvalMessage ==
            [id |-> "approval-" \o a.messageId, role |-> "approval",
             time |-> Undefined,
             content |-> "", attachments |-> Undefined, annotations |-> <<>>,
             usage |-> Undefined,
             mcpApproval |-> [id |-> a.approvalRequest,
                              previousResponseId |-> OrElse(a.previousResponseId, "")]]
    IN [s EXCEPT !.chat.messages = Append(@, approvalMessage),
                 !.chat.status = "idle",
                 !.ui.chatInputEnabled = FALSE]

ReduceStreamComplete(s, a) ==
    [s EXCEPT !.chat.messages =
                  [i \in 1..Len(@) |->
                      IF @[i].id = s.chat.streamingMessageId
                      THEN [@[i] EXCEPT !.usage = a.usage]
                      ELSE @[i]],
              !.chat.status = "idle",
              !.chat.streamingMessageId = Undefined,
              !.chat.lastResponseId = OrElse(a.responseId, @),
              !.ui.chatInputEnabled = TRUE]

(* CHAT_CANCEL_STREAM that also removes the placeholder being streamed. *)
MutCancelStreamDropsPlaceholder(s, a) ==
    [s EXCEPT !.chat.status = "idle",
              !.chat.messages =
                  SelectSeq(@, LAMBDA m : m.id # s.chat.streamingMessageId),
              !.chat.streamingMessageId = Undefined,
              !.ui.chatInputEnabled = TRUE]

ReduceCancelStream(s, a) ==
    [s EXCEPT !.chat.status = "idle",
              !.chat.streamingMessageId = Undefined,
              !.ui.chatInputEnabled = TRUE]

(* CHAT_ERROR that also discards the conversation. *)
MutErrorDropsMessages(s, a) ==
    [s EXCEPT !.chat.status = "error",
              !.chat.error = a.error,
              !.chat.messages = <<>>,
              !.chat.streamingMessageId = Undefined,
              !.ui.chatInputEnabled = a.error.recoverable]

(* CHAT_ERROR that also empties the answer that was streaming. *)
MutErrorResetsStreamingMessage(s, a) ==
    [s EXCEPT !.chat.status = "error",
              !.chat.error = a.error,
              !.chat.messages =
                  [i \in 1..Len(@) |->
                      IF @[i].id = s.chat.streamingMessageId
                      THEN [@[i] EXCEPT !.content = "", !.annotations = <<>>]
                      ELSE @[i]],
              !.chat.streamingMessageId = Undefined,
              !.ui.chatInputEnabled = a.error.recoverable]

(* CHAT_ERROR that enables the input whatever the error. *)
MutErrorEnablesInput(s, a) ==
    [s EXCEPT !.chat.status = "error",
              !.chat.error = a.error,
              !.chat.streamingMessageId = Undefined,
              !.ui.chatInputEnabled = TRUE]

ReduceError(s, a) ==
    [s EXCEPT !.chat.status = "error",
              !.chat.error = a.error,
              !.chat.streamingMessageId = Undefined,
              !.ui.chatInputEnabled = a.error.recoverable]

(* CHAT_CLEAR_ERROR that forgets the error and leaves the status alone. *)
MutClearErrorKeepsStatus(s, a) ==
    [s EXCEPT !.chat.error = NoError,
              !.ui.chatInputEnabled = TRUE]

ReduceClearError(s, a) ==
    [s EXCEPT !.chat.error = NoError,
              !.chat.status = "idle",
              !.ui.chatInputEnabled = TRUE]

(* CHAT_CLEAR that keeps the conversation id. *)
MutClearKeepsConversation(s, a) ==
    [s EXCEPT !.chat = [status |-> "idle",
                        messages |-> <<>>,
                        currentConversationId |-> s.chat.currentConversationId,
                        lastResponseId |-> Null,
                        error |-> NoError,
                        streamingMessageId |-> Undefined],
              !.ui.chatInputEnabled = TRUE]

ReduceClear(s, a) ==
    [s EXCEPT !.chat = [status |-> "idle",
                        messages |-> <<>>,
                        currentConversationId |-> Null,
                        lastResponseId |-> Null,
                        error |-> NoError,
                        streamingMessageId |-> Undefined],
              !.ui.chatInputEnabled = TRUE]

appReducerAt(s, a, date) ==
    CASE a.type = "AUTH_INITIALIZED"           -> ReduceAuthInitialized(s, a)
      [] a.type = "AUTH_TOKEN_EXPIRED"         -> ReduceAuthTokenExpired(s, a)
      [] a.type = "CHAT_SEND_MESSAGE"          -> ReduceSendMessage(s, a)
      [] a.type = "CHAT_ADD_ASSISTANT_MESSAGE" -> ReduceAddAssistantMessage(s, a, date)
      [] a.type = "CHAT_START_STREAM"          -> ReduceStartStream(s, a)
      [] a.type = "CHAT_STREAM_CHUNK"          -> ReduceStreamChunk(s, a)
      [] a.type = "CHAT_STREAM_ANNOTATIONS"    -> ReduceStreamAnnotations(s, a)
      [] a.type = "CHAT_MCP_APPROVAL_REQUEST"  -> ReduceMcpApprovalRequest(s, a)
      [] a.type = "CHAT_STREAM_COMPLETE"       -> ReduceStreamComplete(s, a)
      [] a.type = "CHAT_CANCEL_STREAM"         -> ReduceCancelStream(s, a)
      [] a.type = "CHAT_ERROR"                 -> ReduceError(s, a)
      [] a.type = "CHAT_CLEAR_ERROR"           -> ReduceClearError(s, a)
      [] a.type = "CHAT_CLEAR"                 -> ReduceClear(s, a)
      [] OTHER                                 -> s

(* The reducer as it is called: the clock it reads is the clock of the      *)
(* moment of the call.                                                      *)
appReducer(s, a) == appReducerAt(s, a, now)

----------------------------------------------------------------------------
(* Errors.  createAppError, getErrorCodeFromResponse, getErrorCodeFromMessage *)
(* and isTokenExpiredError live in utils/errorHandler.                        *)

Recoverable(code) == code # "AUTH"

createAppError(code, retry) ==
    [code |-> code, recoverable |-> Recoverable(code), retry |-> retry]

(* A DOMException dispatched as the error of CHAT_ERROR: it has a `code`     *)
(* property, no `recoverable` (undefined, falsy) and no retry action.        *)
DomExceptionAsError == [code |-> "DOMException", recoverable |-> FALSE, retry |-> 0]

getErrorCodeFromResponse(status) == IF status = 401 THEN "AUTH" ELSE "SERVER"

(* A thrown value: an AppError, the DOMException AbortError, or another Error. *)
ThrownApp(e)  == [name |-> "AppError", isApp |-> TRUE, app |-> e]
ThrownAbort   == [name |-> "AbortError", isApp |-> FALSE, app |-> NoError]
ThrownOther   == [name |-> "TypeError", isApp |-> FALSE, app |-> NoError]

(* Nothing thrown. *)
NoThrow == [name |-> "none", isApp |-> FALSE, app |-> NoError]

isTokenExpiredError(err) == err.isApp /\ err.app.code = "AUTH"

getErrorCodeFromMessage(err) == "NETWORK"

----------------------------------------------------------------------------
(* Dispatch: the reducer is applied to each intent in the order dispatched. *)
(* A context carries the state and the intents of the step being taken; each *)
(* intent is recorded with the call that dispatched it, the value of         *)
(* chat.streamingMessageId it met and whether it changed the state.          *)

Ctx(s) == [st |-> s, em |-> <<>>, date |-> now]

(* The same at clock reading n. *)
CtxAt(s, n) == [st |-> s, em |-> <<>>, date |-> n]

Dispatch(c, a, t, cause) ==
    [c EXCEPT !.st = appReducerAt(@, a, c.date),
              !.em = Append(@, [intent |-> a, by |-> t, cause |-> cause,
                                date |-> c.date,
                                sid |-> c.st.chat.streamingMessageId,
                                changed |-> appReducerAt(c.st, a, c.date) # c.st])]

ErrorIntent(e) == [type |-> "CHAT_ERROR", error |-> e]

EmittedTypes == [i \in 1..Len(emitted) |-> emitted[i].intent.type]

----------------------------------------------------------------------------
(* Invocations. *)

(* Besides the arguments and locals of the call, a record keeps what the    *)
(* properties below refer to: recv (the chunk payloads the loop has met),   *)
(* slot (the index of the call's assistant placeholder in chat.messages, 0  *)
(* once the chat was cleared), mark (cancelStream was called during a read  *)
(* of the call), callActive (the calls in progress when it was made) and    *)
(* lastStatus (the answer to the last attempt of a request that failed: an  *)
(* HTTP status, 0 for a rejected fetch, -1 while there is none) and         *)
(* releaseFailed (the releaseLock of the call threw).  err is               *)
(* the value a rejected prepareMessagePayload or processStream threw, until *)
(* the caller's catch block has run; retryOf is the call whose retry action *)
(* made this call (0: none).                                                *)
NewTurn ==
    [pc |-> "new", kind |-> "msg", conv |-> Null, prev |-> Null, files |-> FALSE,
     reqId |-> Undefined, approved |-> FALSE, approvalOf |-> Undefined,
     userId |-> Undefined, messageId |-> Undefined,
     attempts |-> 0, sig |-> 0,
     newConversationId |-> Null, lastChunkContent |-> Undefined,
     srv |-> "cid", grace |-> FALSE,
     recv |-> <<>>, mark |-> "none", slot |-> 0, callActive |-> {},
     lastStatus |-> -1, locked |-> FALSE, released |-> 0,
     releaseFailed |-> FALSE,
     err |-> NoThrow, retryOf |-> 0]

Active(tr) == tr.pc \in {"fetch", "notOk", "backoff", "read"}
Ended(tr) == tr.pc \in {"done", "failed", "aborted"}

(* No request under study at the endpoint. *)
NoRequest ==
    [pc |-> "none", conversation |-> FALSE, items |-> 0, written |-> <<>>,
     result |-> "none"]

(* No response body under study. *)
NoBody ==
    [sent |-> <<>>, body |-> <<>>, reads |-> <<>>, pending |-> "",
     buffer |-> <<>>, lines |-> <<>>, done |-> FALSE]

Init ==
    /\ state = initialAppState
    /\ currentStreamAbort = 0
    /\ streamCancelled = FALSE
    /\ aborted = {}
    /\ turns = [t \in Turns |-> NewTurn]
    /\ now = 1
    /\ budget = [events |-> MaxStreamEvents, controls |-> MaxControls,
                 noise |-> MaxNoise, skew |-> MaxSkew, files |-> MaxFileTurns,
                 early |-> MaxTurns + MaxControls, signIn |-> 1,
                 releases |-> MaxTurns, sequential |-> FALSE]
    /\ emitted = <<>>
    /\ op = [name |-> "init", turn |-> 0]
    /\ sse = NoBody
    /\ endpoint = NoRequest

(* A collaborator (token, files, network, response body) may fail for turn t: *)
(* the model bounds the number of turns that meet such failures.             *)
Faulty(tr) ==
    \/ tr.pc \in {"notOk", "backoff", "failed"}
    \/ tr.pc = "thrown" /\ tr.err.name # "AbortError"
    \/ tr.attempts > 1
    \/ tr.srv = "cut"

Fault(t) ==
    \/ Faulty(turns[t])
    \/ Cardinality({u \in Turns : Faulty(turns[u])}) < MaxFaultyTurns

(* An operation may be called now: AUTH_INITIALIZED was dispatched           *)
(* (budget.signIn = 0), or the run may still hold an operation called       *)
(* before it.                                                               *)
Early == budget.early > 0 \/ budget.signIn = 0

(* The budget b after one more operation was called. *)
Called(b) ==
    IF budget.signIn > 0 THEN [b EXCEPT !.early = @ - 1] ELSE b

(* One more call of cancelStream, clearChat or clearError. *)
Control ==
    /\ Early
    /\ budget.controls > 0
    /\ budget' = Called([budget EXCEPT !.controls = @ - 1])

(* AbortController.abort(): the signal fires; a read that is pending on a   *)
(* body fetched with that signal may still settle with the data it had.     *)
AbortTurns(trs, c) ==
    [u \in Turns |->
        IF trs[u].pc = "read" /\ trs[u].sig = c /\ c \notin aborted
        THEN [trs[u] EXCEPT !.grace = TRUE]
        ELSE trs[u]]

(* A catch block that leaves the sign-in state alone. *)
MutSendMessageCatchKeepsAuth(c, t, err) ==
    IF err.name = "AbortError" THEN c
    ELSE LET appError == IF err.isApp THEN err.app
                         ELSE createAppError(getErrorCodeFromMessage(err), t)
         IN Dispatch(c, ErrorIntent(appError), t, "catch")

(* The catch block of sendMessage (lines 523-542). *)
SendMessageCatch(c, t, err) ==
    IF err.name = "AbortError" THEN c
    ELSE LET c1 == IF isTokenExpiredError(err)
                   THEN Dispatch(c, [type |-> "AUTH_TOKEN_EXPIRED"], t, "catch")
                   ELSE c
             appError == IF err.isApp THEN err.app
                         ELSE createAppError(getErrorCodeFromMessage(err), t)
         IN Dispatch(c1, ErrorIntent(appError), t, "catch")

(* The catch block of sendMcpApproval (lines 753-764). *)
SendMcpApprovalCatch(c, t, err) ==
    IF err.name = "AbortError" THEN c
    ELSE LET appError == IF err.isApp THEN err.app
                         ELSE createAppError(getErrorCodeFromMessage(err), 0)
         IN Dispatch(c, ErrorIntent(appError), t, "catch")

TurnCatch(c, t, err) ==
    IF turns[t].kind = "msg" THEN SendMessageCatch(c, t, err)
    ELSE SendMcpApprovalCatch(c, t, err)

EndPc(err) == IF err.name = "AbortError" THEN "aborted" ELSE "failed"

(* Whether a new call may start: under a sequential budget, only once every *)
(* earlier call has ended.                                                  *)
MayCall(t) ==
    /\ Early
    /\ turns[t].pc = "new"
    /\ \A u \in Turns : u < t => turns[u].pc # "new"
    /\ budget.sequential => \A u \in Turns : turns[u].pc = "new" \/ Ended(turns[u])

(* sendMessage(messageText, currentConversationId, files, previousResponseId) *)
(* up to its first await (lines 464-471).                                     *)
SendMessageWith(t, currentConversationId, files, previousResponseId, retryOf) ==
    /\ MayCall(t)
    /\ (files /\ retryOf = 0) => Cardinality({u \in Turns : turns[u].files}) < budget.files
    /\ LET c == IF currentStreamAbort # 0
                THEN Dispatch(Ctx(state), [type |-> "CHAT_CANCEL_STREAM"], t, "supersede")
                ELSE Ctx(state)
           trs == IF currentStreamAbort # 0
                  THEN AbortTurns(turns, currentStreamAbort) ELSE turns
       IN /\ state' = c.st
          /\ emitted' = c.em
          /\ streamCancelled' = IF currentStreamAbort # 0 THEN TRUE ELSE streamCancelled
          /\ aborted' = IF currentStreamAbort # 0
                        THEN aborted \cup {currentStreamAbort} ELSE aborted
          /\ turns' = [trs EXCEPT ![t] =
                          [@ EXCEPT !.pc = "token", !.kind = "msg", !.files = files,
                                    !.callActive = {u \in Turns : Active(turns[u])},
                                    !.conv = currentConversationId,
                                    !.prev = previousResponseId,
                                    !.retryOf = retryOf]]
    /\ op' = [name |-> "sendMessage", turn |-> t]
    /\ budget' = Called(budget)
    /\ UNCHANGED <<currentStreamAbort, now>>
    /\ UNCHANGED <<sse, endpoint>>

(* handleSendMessage of AgentPreview (lines 982-984): the conversation and  *)
(* the response id are those of the state.                                  *)
SendMessage(t, files) ==
    SendMessageWith(t, state.chat.currentConversationId, files,
                    state.chat.lastResponseId, 0)

(* The retry action of the error shown (line 537): sendMessage with the     *)
(* arguments of the call that failed.                                       *)
RetryAction(t) ==
    /\ state.chat.error.retry # 0
    /\ LET u == state.chat.error.retry IN
       SendMessageWith(t, turns[u].conv, turns[u].files, turns[u].prev, u)

(* sendMcpApproval up to its first await (lines 714-715), called from the   *)
(* approval message i with the request id and continuation token it holds.  *)
SendMcpApproval(t, i, approved) ==
    /\ MayCall(t)
    /\ i \in 1..Len(state.chat.messages)
    /\ state.chat.messages[i].role = "approval"
    /\ turns' = [turns EXCEPT ![t] =
                    [@ EXCEPT !.pc = "token", !.kind = "approval",
                              !.callActive = {u \in Turns : Active(turns[u])},
                              !.approved = approved,
                              !.reqId = state.chat.messages[i].mcpApproval.id,
                              !.approvalOf = state.chat.messages[i].id,
                              !.prev = state.chat.messages[i].mcpApproval.previousResponseId,
                              !.conv = state.chat.currentConversationId]]
    /\ emitted' = <<>>
    /\ op' = [name |-> "sendMcpApproval", turn |-> t]
    /\ budget' = Called(budget)
    /\ UNCHANGED <<state, currentStreamAbort, streamCancelled, aborted, now>>
    /\ UNCHANGED <<sse, endpoint>>

(* ensureAuthToken: getAccessToken() resolved with null (lines 328-331). *)
TokenNull(t) ==
    /\ turns[t].pc = "token"
    /\ Fault(t)
    /\ LET err == ThrownApp(createAppError("AUTH", 0))
           c == TurnCatch(Ctx(state), t, err)
       IN /\ state' = c.st
          /\ emitted' = c.em
    /\ turns' = [turns EXCEPT ![t].pc = "failed"]
    /\ op' = [name |-> "token", turn |-> t]
    /\ UNCHANGED <<currentStreamAbort, streamCancelled, aborted, now, budget>>
    /\ UNCHANGED <<sse, endpoint>>

(* The readings of the clock one run of code makes: k readings, none earlier *)
(* than the one before; the run may still let the clock advance by          *)
(* budget.skew between the first and the last.                              *)
Readings(k) ==
    {r \in [1..k -> now..MaxClock] :
        /\ \A i \in 1..(k - 1) : r[i] <= r[i + 1]
        /\ r[k] - r[1] <= budget.skew
        /\ r[1] = now \/ \E u \in Turns : turns[u].messageId # Undefined}

(* Lines 477-518 of sendMessage: the optimistic intents, the controller,    *)
(* and the first attempt of the initiating request.  The clock is read four *)
(* times: Date.now() (line 478), new Date() (line 483), Date.now() (line    *)
(* 489) and new Date() of the reducer (line 62).                            *)
BeginMessage(t, r) ==
    LET userMessage ==
            [id |-> ToString(r[1]), role |-> "user", content |-> MessageText,
             time |-> toISOString(r[2]),
             attachments |-> IF turns[t].files THEN "attachments" ELSE Undefined,
             annotations |-> <<>>, usage |-> Undefined, mcpApproval |-> NoApproval]
        assistantMessageId == ToString(r[3] + 1)
        c1 == Dispatch(CtxAt(state, r[4]),
                       [type |-> "CHAT_SEND_MESSAGE", message |-> userMessage], t, "begin")
        c2 == Dispatch(c1, [type |-> "CHAT_ADD_ASSISTANT_MESSAGE",
                            messageId |-> assistantMessageId], t, "begin")
        c3 == Dispatch(c2, [type |-> "CHAT_START_STREAM",
                            conversationId |-> OrElse(turns[t].conv, Undefined),
                            messageId |-> assistantMessageId], t, "begin")
    IN /\ state' = c3.st
       /\ emitted' = c3.em
       /\ turns' = [turns EXCEPT ![t] =
                       [@ EXCEPT !.pc = "fetch", !.userId = userMessage.id,
                                 !.messageId = assistantMessageId,
                                 !.slot = Len(state.chat.messages) + 2,
                                 !.attempts = 1, !.sig = t]]

(* Lines 717-748 of sendMcpApproval.  The clock is read twice: Date.now()   *)
(* (line 717) and new Date() of the reducer (line 62).                      *)
BeginApproval(t, r) ==
    LET assistantMessageId == ToString(r[1])
        c1 == Dispatch(CtxAt(state, r[Len(r)]),
                       [type |-> "CHAT_ADD_ASSISTANT_MESSAGE",
                        messageId |-> assistantMessageId], t, "begin")
        c2 == Dispatch(c1, [type |-> "CHAT_START_STREAM",
                            conversationId |-> turns[t].conv,
                            messageId |-> assistantMessageId], t, "begin")
    IN /\ state' = c2.st
       /\ emitted' = c2.em
       /\ turns' = [turns EXCEPT ![t] =
                       [@ EXCEPT !.pc = "fetch", !.messageId = assistantMessageId,
                                 !.slot = Len(state.chat.messages) + 1,
                                 !.attempts = 1, !.sig = t]]

Begin(t) ==
    /\ IF turns[t].kind = "msg"
       THEN \E r \in Readings(4) :
               /\ BeginMessage(t, r)
               /\ now' = r[4]
               /\ budget' = [budget EXCEPT !.skew = @ - (r[4] - r[1])]
       ELSE \E r \in Readings(2) :
               /\ BeginApproval(t, r)
               /\ now' = r[2]
               /\ budget' = [budget EXCEPT !.skew = @ - (r[2] - r[1])]
    /\ currentStreamAbort' = t
    /\ streamCancelled' = FALSE
    /\ UNCHANGED aborted

(* getAccessToken() resolved with a token. *)
TokenOk(t) ==
    /\ turns[t].pc = "token"
    /\ op' = [name |-> "token", turn |-> t]
    /\ IF turns[t].kind = "msg" /\ turns[t].files
       THEN /\ turns' = [turns EXCEPT ![t].pc = "prepare"]
            /\ emitted' = <<>>
            /\ UNCHANGED <<state, currentStreamAbort, streamCancelled, aborted,
                           now, budget>>
       ELSE Begin(t)
    /\ UNCHANGED <<sse, endpoint>>

(* prepareMessagePayload: convertFilesToDataUris resolved (lines 358-372). *)
PrepareOk(t) ==
    /\ turns[t].pc = "prepare"
    /\ op' = [name |-> "prepare", turn |-> t]
    /\ Begin(t)
    /\ UNCHANGED <<sse, endpoint>>

(* prepareMessagePayload: convertFilesToDataUris rejected (lines 373-377); *)
(* the catch block dispatches and throws, and the call is resumed later.    *)
PrepareFail(t) ==
    /\ turns[t].pc = "prepare"
    /\ Fault(t)
    /\ LET appError == createAppError("UNKNOWN", 0)
           c == Dispatch(Ctx(state), ErrorIntent(appError), t, "files")
       IN /\ state' = c.st
          /\ emitted' = c.em
          /\ turns' = [turns EXCEPT ![t].pc = "thrown", ![t].err = ThrownApp(appError)]
    /\ op' = [name |-> "prepare", turn |-> t]
    /\ UNCHANGED <<currentStreamAbort, streamCancelled, aborted, now, budget>>
    /\ UNCHANGED <<sse, endpoint>>

(* A catch block that sends the request again after a failure of the        *)
(* stream.                                                                  *)
MutCatchRetriesStream(t) ==
    /\ turns[t].pc = "thrown"
    /\ LET c == TurnCatch(Ctx(state), t, turns[t].err)
       IN /\ state' = c.st
          /\ emitted' = c.em
    /\ turns' = [turns EXCEPT ![t].pc = IF turns[t].locked THEN "backoff"
                                        ELSE EndPc(turns[t].err)]
    /\ op' = [name |-> "catch", turn |-> t]
    /\ UNCHANGED <<currentStreamAbort, streamCancelled, aborted, now, budget>>
    /\ UNCHANGED <<sse, endpoint>>

(* The call is resumed with what prepareMessagePayload or processStream     *)
(* threw: the catch block of sendMessage (523-542) or sendMcpApproval       *)
(* (753-764).                                                               *)
Catch(t) ==
    /\ turns[t].pc = "thrown"
    /\ LET c == TurnCatch(Ctx(state), t, turns[t].err)
       IN /\ state' = c.st
          /\ emitted' = c.em
    /\ turns' = [turns EXCEPT ![t].pc = EndPc(turns[t].err)]
    /\ op' = [name |-> "catch", turn |-> t]
    /\ UNCHANGED <<currentStreamAbort, streamCancelled, aborted, now, budget>>
    /\ UNCHANGED <<sse, endpoint>>

----------------------------------------------------------------------------
(* The SSE endpoint (MapPost /api/chat/stream): the events one response     *)
(* body carries, in the order the endpoint writes them.                     *)

Ev(type) ==
    [type |-> type, conversationId |-> Undefined, content |-> Undefined,
     annotations |-> <<>>, approvalRequest |-> Undefined, responseId |-> Null,
     parsed |-> TRUE, dataError |-> FALSE]

(* Records the endpoint does not write but a body may hold: a line that     *)
(* parseSseLine gives no event for, an event of a type the switch has no    *)
(* case for, and a record carrying data.error.                              *)
NotAnEvent == [Ev("") EXCEPT !.parsed = FALSE]

UnknownEvent == Ev("ping")

FaultRecord == [Ev("") EXCEPT !.dataError = TRUE]

Unrecognised == {NotAnEvent, UnknownEvent, FaultRecord}

(* The unrecognised records the run may still put in a body. *)
Noise(ph) ==
    IF budget.noise > 0 /\ ph \in {"cid", "body", "tail"} THEN Unrecognised ELSE {}

RECURSIVE NoiseIn(_)
NoiseIn(evs) ==
    IF evs = <<>> THEN 0
    ELSE (IF Head(evs) \in Unrecognised THEN 1 ELSE 0) + NoiseIn(Tail(evs))

(* request.ConversationId ?? CreateConversationAsync(...) *)
ServerConversationId(t) ==
    IF turns[t].conv = Null THEN "conv-" \o ToString(t) ELSE turns[t].conv

(* The response id the agent reports for the request of call t. *)
ServerResponseId(t) == "resp-" \o ToString(t)

ServerNext(t, ph) ==
    CASE ph = "cid" ->
            {[Ev("conversationId") EXCEPT !.conversationId = ServerConversationId(t)],
             Ev("error")}
      [] ph = "body" ->
            {[Ev("chunk") EXCEPT !.content = x] : x \in ChunkTexts}
            \cup {[Ev("annotations") EXCEPT !.annotations = <<"ann-" \o ToString(t)>>],
                  [Ev("mcpApprovalRequest") EXCEPT
                        !.approvalRequest = "req-" \o ToString(t)],
                  Ev("usage"),
                  [Ev("usage") EXCEPT !.responseId = ServerResponseId(t)],
                  Ev("error")}
      [] ph = "tail" -> {Ev("done"), Ev("error")}
      [] OTHER -> {}

NextPhase(ph, ev) ==
    CASE ev.type = "conversationId" -> "body"
      [] ev.type = "usage" -> "tail"
      [] ev.type = "done" -> "end"
      [] ev.type = "error" -> "failed"
      [] OTHER -> ph

RECURSIVE Batches(_, _, _)
(* The event sequences of length 1..n a body may hold from phase ph: what   *)
(* the endpoint writes, and the unrecognised records.                       *)
Batches(t, ph, n) ==
    IF n <= 0 THEN {}
    ELSE UNION { {<<e>>} \cup {<<e>> \o b : b \in Batches(t, NextPhase(ph, e), n - 1)}
                 : e \in ServerNext(t, ph) \cup Noise(ph) }

RECURSIVE PhaseAfter(_, _)
PhaseAfter(ph, evs) ==
    IF evs = <<>> THEN ph ELSE PhaseAfter(NextPhase(ph, evs[1]), Tail(evs))

----------------------------------------------------------------------------
(* processStream (lines 554-698). *)

(* The locals of one run of the read loop's body, with the state and the    *)
(* intents dispatched so far.                                               *)
LoopCtx(t) ==
    [st |-> state, em |-> <<>>, date |-> now,
     newConversationId |-> turns[t].newConversationId,
     lastChunkContent |-> turns[t].lastChunkContent,
     recv |-> turns[t].recv,
     out |-> "continue"]

(* Duplicate suppression of the 'chunk' case (line 617). *)
ChunkAccepted(content, lastChunkContent) == content # lastChunkContent

(* The continuation token handed to CHAT_MCP_APPROVAL_REQUEST (line 643). *)
ApprovalPreviousResponseId(c) == c.newConversationId

(* The switch over one decoded event (lines 604-671). *)
(* A 'conversationId' case that takes every id it is given. *)
MutConversationIdAlwaysAccepted(newConversationId) == TRUE

(* if (!newConversationId) of the 'conversationId' case (line 606). *)
ConversationIdAccepted(newConversationId) == Falsy(newConversationId)

HandleEvent(c, t, ev) ==
    LET messageId == turns[t].messageId IN
    CASE ev.type = "conversationId" ->
            IF ConversationIdAccepted(c.newConversationId)
            THEN [Dispatch(c, [type |-> "CHAT_START_STREAM",
                               conversationId |-> ev.conversationId,
                               messageId |-> messageId], t, "event")
                    EXCEPT !.newConversationId = ev.conversationId]
            ELSE c
      [] ev.type = "chunk" ->
            LET c1 == [c EXCEPT !.recv = Append(@, ev.content)] IN
            IF ChunkAccepted(ev.content, c.lastChunkContent)
            THEN [Dispatch(c1, [type |-> "CHAT_STREAM_CHUNK",
                                messageId |-> messageId,
                                content |-> ev.content], t, "event")
                    EXCEPT !.lastChunkContent = ev.content]
            ELSE c1
      [] ev.type = "annotations" ->
            IF Len(ev.annotations) > 0
            THEN Dispatch(c, [type |-> "CHAT_STREAM_ANNOTATIONS",
                              messageId |-> messageId,
                              annotations |-> ev.annotations], t, "event")
            ELSE c
      [] ev.type = "mcpApprovalRequest" ->
            IF ~Falsy(ev.approvalRequest)
            THEN Dispatch(c, [type |-> "CHAT_MCP_APPROVAL_REQUEST",
                              messageId |-> messageId,
                              approvalRequest |-> ev.approvalRequest,
                              previousResponseId |-> ApprovalPreviousResponseId(c)],
                          t, "event")
            ELSE c
      [] ev.type = "usage" ->
            Dispatch(c, [type |-> "CHAT_STREAM_COMPLETE",
                         usage |-> "usage",
                         responseId |-> ev.responseId], t, "event")
      [] ev.type = "done" -> [c EXCEPT !.out = "return"]
      [] ev.type = "error" ->
            [Dispatch(c, ErrorIntent(createAppError("STREAM", 0)), t, "event")
                EXCEPT !.out = "throw"]
      [] OTHER -> c

(* A loop body that takes a line without an event for a stream error. *)
MutHandleLineFailsOnGarbage(c, t, ev) ==
    IF ~ev.parsed \/ ev.dataError
    THEN [Dispatch(c, ErrorIntent(createAppError("STREAM", 0)), t, "event")
             EXCEPT !.out = "throw"]
    ELSE HandleEvent(c, t, ev)

(* The body of the for loop before the switch (lines 591-602): a line that  *)
(* gives no event is skipped, a record carrying data.error ends the stream. *)
HandleLine(c, t, ev) ==
    IF ~ev.parsed THEN c
    ELSE IF ev.dataError
    THEN [Dispatch(c, ErrorIntent(createAppError("STREAM", 0)), t, "event")
             EXCEPT !.out = "throw"]
    ELSE HandleEvent(c, t, ev)

RECURSIVE MutProcessLinesToTheEnd(_, _, _)
(* A for loop over the lines that a return does not leave. *)
MutProcessLinesToTheEnd(c, t, evs) ==
    IF evs = <<>> \/ c.out = "throw" THEN c
    ELSE MutProcessLinesToTheEnd(HandleLine(c, t, evs[1]), t, Tail(evs))

RECURSIVE ProcessLines(_, _, _)
(* for (const line of lines) ... : stops at the first return or throw. *)
ProcessLines(c, t, evs) ==
    IF evs = <<>> \/ c.out # "continue" THEN c
    ELSE ProcessLines(HandleLine(c, t, evs[1]), t, Tail(evs))

(* The catch block of processStream (lines 674-690) for a thrown value that *)
(* is not a benign cancellation: it dispatches and throws again.            *)
StreamCatch(c, t, err, cause) ==
    LET appError == IF err.name = "AbortError" THEN DomExceptionAsError
                    ELSE createAppError("STREAM", 0)
    IN Dispatch(c, ErrorIntent(appError), t, cause)

(* processStream rejects with err: the caller is resumed later. *)
Thrown(tr, err) == [tr EXCEPT !.pc = "thrown", !.err = err]

(* A finally block that lets a failure of releaseLock out: processStream    *)
(* rejects with what releaseLock threw.                                     *)
MutFinallyLetsFailureOut(tr, fails) ==
    IF fails
    THEN [tr EXCEPT !.released = @ + 1, !.releaseFailed = TRUE,
                    !.pc = "thrown", !.err = ThrownOther]
    ELSE [tr EXCEPT !.released = @ + 1, !.releaseFailed = FALSE]

(* What reader.releaseLock() may do at an exit of the loop: return (FALSE)  *)
(* or throw (TRUE).                                                         *)
ReleaseFails ==
    IF Cardinality({u \in Turns : turns[u].releaseFailed}) < budget.releases
    THEN BOOLEAN
    ELSE {FALSE}

(* The finally block of processStream (lines 691-697): releaseLock is       *)
(* called, and what it may throw (fails) is caught and dropped.             *)
Finally(tr, fails) == [tr EXCEPT !.released = @ + 1, !.releaseFailed = fails]

(* processStream returns: releaseLock, and the caller is resumed later. *)
Returned(t, trs) ==
    /\ \E fails \in ReleaseFails :
          turns' = [trs EXCEPT ![t] = Finally([@ EXCEPT !.pc = "returned"], fails)]
    /\ UNCHANGED <<currentStreamAbort, streamCancelled>>

(* processStream rejects with err: releaseLock, and the caller is resumed   *)
(* later in its catch block.                                                *)
Rejected(t, trs, err) ==
    \E fails \in ReleaseFails :
        turns' = [trs EXCEPT ![t] = Finally(Thrown(@, err), fails)]

(* The call is resumed after processStream returned: lines 521-522          *)
(* (751-752).                                                               *)
Completed(t) ==
    /\ turns[t].pc = "returned"
    /\ turns' = [turns EXCEPT ![t].pc = "done"]
    /\ currentStreamAbort' = 0
    /\ streamCancelled' = FALSE
    /\ emitted' = <<>>
    /\ op' = [name |-> "resume", turn |-> t]
    /\ UNCHANGED <<state, aborted, now, budget>>
    /\ UNCHANGED <<sse, endpoint>>

(* The head of the read loop (lines 577-581): leave if cancelled, else read. *)
LoopHead(t, trs) ==
    IF streamCancelled
    THEN Returned(t, trs)
    ELSE /\ turns' = [trs EXCEPT ![t].pc = "read", ![t].grace = FALSE]
         /\ UNCHANGED <<currentStreamAbort, streamCancelled>>

----------------------------------------------------------------------------
(* The initiating request: retryWithBackoff(initiateStream, 3, 1000). *)

(* fetch resolved with a 2xx response; processStream runs to its first read. *)
FetchOk(t, readable) ==
    /\ turns[t].pc = "fetch"
    /\ turns[t].sig \notin aborted
    /\ op' = [name |-> "fetch", turn |-> t]
    /\ IF readable
       THEN /\ LoopHead(t, [turns EXCEPT ![t].newConversationId = turns[t].conv,
                                         ![t].srv = "cid", ![t].locked = TRUE])
            /\ emitted' = <<>>
            /\ UNCHANGED state
       ELSE /\ Fault(t)
            /\ LET appError == createAppError("STREAM", 0)
                   c == Dispatch(Ctx(state), ErrorIntent(appError), t, "body")
               IN /\ state' = c.st
                  /\ emitted' = c.em
                  /\ turns' = [turns EXCEPT ![t] = Thrown(@, ThrownApp(appError))]
            /\ UNCHANGED <<currentStreamAbort, streamCancelled>>
    /\ UNCHANGED <<aborted, now, budget>>
    /\ UNCHANGED <<sse, endpoint>>

(* retryWithBackoff(op, maxAttempts, baseDelayMs) of utils/errorHandler:     *)
(* what the helper may do once an attempt, the attempts-th, rejected with   *)
(* err.  After maxAttempts attempts it rejects with err; before that it     *)
(* waits and runs the operation again.  Whether a rejection with AbortError *)
(* is retried or passed on at once is not part of its contract: both are    *)
(* outcomes.                                                                *)
retryWithBackoff(err, attempts, maxAttempts) ==
    IF attempts >= maxAttempts THEN {"reject"}
    ELSE IF err.name = "AbortError" THEN {"retry", "reject"}
    ELSE {"retry"}

(* An attempt of call t rejected with err, the answer being status:         *)
(* retryWithBackoff waits for the next attempt, or rejects and the catch    *)
(* block of the call runs (lines 523-542, 753-764).                         *)
AttemptFailed(t, trs, err, status) ==
    \E outcome \in retryWithBackoff(err, trs[t].attempts, MaxAttempts) :
        IF outcome = "retry"
        THEN /\ turns' = [trs EXCEPT ![t].pc = "backoff", ![t].lastStatus = -1]
             /\ emitted' = <<>>
             /\ UNCHANGED state
        ELSE /\ LET c == TurnCatch(Ctx(state), t, err)
                IN /\ state' = c.st
                   /\ emitted' = c.em
             /\ turns' = [trs EXCEPT ![t].pc = EndPc(err), ![t].lastStatus = status]

(* fetch resolved with a non-2xx response (lines 425-435): initiateStream   *)
(* awaits parseErrorFromResponse (line 436).                                *)
FetchNotOk(t, status) ==
    /\ turns[t].pc = "fetch"
    /\ turns[t].sig \notin aborted
    /\ Fault(t)
    /\ op' = [name |-> "response", turn |-> t]
    /\ turns' = [turns EXCEPT ![t].pc = "notOk", ![t].lastStatus = status]
    /\ emitted' = <<>>
    /\ UNCHANGED <<state, currentStreamAbort, streamCancelled, aborted, now, budget>>
    /\ UNCHANGED <<sse, endpoint>>

(* The attempt fails: fetch rejected (status 0: network failure), or the    *)
(* message of a non-2xx response was read and initiateStream throws the     *)
(* typed error (lines 436-438), whatever has happened to the signal of the  *)
(* request since the response arrived.                                      *)
FetchFail(t, status) ==
    /\ \/ /\ status = 0
          /\ turns[t].pc = "fetch"
          /\ turns[t].sig \notin aborted
          /\ Fault(t)
       \/ /\ status # 0
          /\ turns[t].pc = "notOk"
          /\ turns[t].lastStatus = status
    /\ op' = [name |-> "fetch", turn |-> t]
    /\ AttemptFailed(t, turns,
                     IF status = 0 THEN ThrownOther
                     ELSE ThrownApp(createAppError(getErrorCodeFromResponse(status), 0)),
                     status)
    /\ UNCHANGED <<currentStreamAbort, streamCancelled, aborted, now, budget>>
    /\ UNCHANGED <<sse, endpoint>>

(* fetch rejected with AbortError: its signal has fired. *)
FetchAbort(t) ==
    /\ turns[t].pc = "fetch"
    /\ turns[t].sig \in aborted
    /\ op' = [name |-> "fetch", turn |-> t]
    /\ AttemptFailed(t, turns, ThrownAbort, turns[t].lastStatus)
    /\ UNCHANGED <<currentStreamAbort, streamCancelled, aborted, now, budget>>
    /\ UNCHANGED <<sse, endpoint>>

(* The backoff delay elapsed: the next attempt evaluates                    *)
(* this.currentStreamAbort!.signal (line 514) as it is now; with no         *)
(* controller the attempt throws a TypeError before any request.            *)
Retry(t) ==
    /\ turns[t].pc = "backoff"
    /\ op' = [name |-> "backoff", turn |-> t]
    /\ IF currentStreamAbort # 0
       THEN /\ turns' = [turns EXCEPT ![t].pc = "fetch", ![t].attempts = @ + 1,
                                      ![t].sig = currentStreamAbort]
            /\ emitted' = <<>>
            /\ UNCHANGED state
       ELSE AttemptFailed(t, [turns EXCEPT ![t].attempts = @ + 1], ThrownOther,
                          turns[t].lastStatus)
    /\ UNCHANGED <<currentStreamAbort, streamCancelled, aborted, now, budget>>
    /\ UNCHANGED <<sse, endpoint>>

----------------------------------------------------------------------------
(* The read loop: how a pending reader.read() settles. *)

Min(a, b) == IF a < b THEN a ELSE b

(* read() resolved with bytes holding the complete events `batch`. *)
ReadData(t, batch) ==
    /\ turns[t].pc = "read"
    /\ turns[t].sig \notin aborted \/ turns[t].grace
    /\ batch \in Batches(t, turns[t].srv, Min(MaxBatch, budget.events))
    /\ NoiseIn(batch) <= budget.noise
    /\ budget' = [budget EXCEPT !.events = @ - Len(batch), !.noise = @ - NoiseIn(batch)]
    /\ op' = [name |-> "read", turn |-> t]
    /\ LET c == ProcessLines(LoopCtx(t), t, batch)
           trs == [turns EXCEPT ![t].newConversationId = c.newConversationId,
                                ![t].lastChunkContent = c.lastChunkContent,
                                ![t].recv = c.recv,
                                ![t].srv = PhaseAfter(turns[t].srv, batch)]
       IN CASE c.out = "continue" ->
                 /\ state' = c.st
                 /\ emitted' = c.em
                 /\ LoopHead(t, trs)
            [] c.out = "return" ->
                 /\ state' = c.st
                 /\ emitted' = c.em
                 /\ Returned(t, trs)
            [] OTHER ->
                 LET err == ThrownApp(createAppError("STREAM", 0))
                     c2 == StreamCatch(c, t, err, "rethrow")
                 IN /\ state' = c2.st
                    /\ emitted' = c2.em
                    /\ Rejected(t, trs, err)
                    /\ UNCHANGED <<currentStreamAbort, streamCancelled>>
    /\ UNCHANGED <<aborted, now>>
    /\ UNCHANGED <<sse, endpoint>>

(* read() resolved with done: the body ended before a done event was read   *)
(* (line 582).                                                              *)
ReadDone(t) ==
    /\ turns[t].pc = "read"
    /\ turns[t].sig \notin aborted
    /\ Fault(t)
    /\ op' = [name |-> "read", turn |-> t]
    /\ Returned(t, [turns EXCEPT ![t].srv = "cut"])
    /\ emitted' = <<>>
    /\ UNCHANGED <<state, aborted, now, budget>>
    /\ UNCHANGED <<sse, endpoint>>

(* read() rejected with a transport error. *)
ReadFail(t) ==
    /\ turns[t].pc = "read"
    /\ turns[t].sig \notin aborted
    /\ Fault(t)
    /\ op' = [name |-> "read", turn |-> t]
    /\ LET c == StreamCatch(Ctx(state), t, ThrownOther, "transport")
       IN /\ state' = c.st
          /\ emitted' = c.em
    /\ Rejected(t, turns, ThrownOther)
    /\ UNCHANGED <<currentStreamAbort, streamCancelled, aborted, now, budget>>
    /\ UNCHANGED <<sse, endpoint>>

(* The benign-cancellation test of the catch block (line 675). *)
BenignAbort == streamCancelled

(* read() rejected with AbortError: the signal of the body has fired. *)
ReadAbort(t) ==
    /\ turns[t].pc = "read"
    /\ turns[t].sig \in aborted
    /\ op' = [name |-> "read", turn |-> t]
    /\ IF BenignAbort
       THEN /\ Returned(t, turns)
            /\ emitted' = <<>>
            /\ UNCHANGED state
       ELSE /\ LET c == StreamCatch(Ctx(state), t, ThrownAbort, "abort")
               IN /\ state' = c.st
                  /\ emitted' = c.em
            /\ Rejected(t, turns, ThrownAbort)
            /\ UNCHANGED <<currentStreamAbort, streamCancelled>>
    /\ UNCHANGED <<aborted, now, budget>>
    /\ UNCHANGED <<sse, endpoint>>

----------------------------------------------------------------------------
(* The remaining public operations. *)

(* cancelStream (lines 788-794). *)
CancelStream ==
    /\ Control
    /\ op' = [name |-> "cancelStream", turn |-> 0]
    /\ IF currentStreamAbort # 0
       THEN /\ streamCancelled' = TRUE
            /\ aborted' = aborted \cup {currentStreamAbort}
            /\ turns' = [u \in Turns |->
                            IF turns[u].pc = "read" /\ turns[u].sig = currentStreamAbort
                            THEN [AbortTurns(turns, currentStreamAbort)[u]
                                     EXCEPT !.mark = "cancelled"]
                            ELSE turns[u]]
            /\ LET c == Dispatch(Ctx(state), [type |-> "CHAT_CANCEL_STREAM"], 0, "cancel")
               IN /\ state' = c.st
                  /\ emitted' = c.em
       ELSE /\ emitted' = <<>>
            /\ UNCHANGED <<state, streamCancelled, aborted, turns>>
    /\ UNCHANGED <<currentStreamAbort, now>>
    /\ UNCHANGED <<sse, endpoint>>

(* clearChat (lines 771-773). *)
ClearChat ==
    /\ Control
    /\ op' = [name |-> "clearChat", turn |-> 0]
    /\ LET c == Dispatch(Ctx(state), [type |-> "CHAT_CLEAR"], 0, "clear")
       IN /\ state' = c.st
          /\ emitted' = c.em
    /\ turns' = [u \in Turns |-> [turns[u] EXCEPT !.slot = 0]]
    /\ UNCHANGED <<currentStreamAbort, streamCancelled, aborted, now>>
    /\ UNCHANGED <<sse, endpoint>>

(* clearError (lines 779-781). *)
ClearError ==
    /\ Control
    /\ op' = [name |-> "clearError", turn |-> 0]
    /\ LET c == Dispatch(Ctx(state), [type |-> "CHAT_CLEAR_ERROR"], 0, "clear")
       IN /\ state' = c.st
          /\ emitted' = c.em
    /\ UNCHANGED <<currentStreamAbort, streamCancelled, aborted, turns, now>>
    /\ UNCHANGED <<sse, endpoint>>

(* The sign-in completing: AUTH_INITIALIZED reaches the reducer.  What the   *)
(* run might still have called before it is void.                           *)
AuthInitialized ==
    /\ budget.signIn > 0
    /\ op' = [name |-> "authInitialized", turn |-> 0]
    /\ LET c == Dispatch(Ctx(state), [type |-> "AUTH_INITIALIZED"], 0, "auth")
       IN /\ state' = c.st
          /\ emitted' = c.em
    /\ budget' = [budget EXCEPT !.early = 0, !.signIn = 0]
    /\ UNCHANGED <<currentStreamAbort, streamCancelled, aborted, turns, now>>
    /\ UNCHANGED <<sse, endpoint>>

(* The steps of sendMessage calls without attachments, and the remaining    *)
(* public operations.                                                       *)
NextCalls ==
    \/ \E t \in Turns, files \in BOOLEAN : SendMessage(t, files)
    \/ \E t \in Turns : RetryAction(t)
    \/ \E t \in Turns : TokenNull(t)
    \/ \E t \in Turns : TokenOk(t)
    \/ \E t \in Turns : Catch(t)
    \/ \E t \in Turns : Completed(t)
    \/ \E t \in Turns, readable \in BOOLEAN : FetchOk(t, readable)
    \/ \E t \in Turns, status \in {401, 500} : FetchNotOk(t, status)
    \/ \E t \in Turns, status \in {0, 401, 500} : FetchFail(t, status)
    \/ \E t \in Turns : FetchAbort(t)
    \/ \E t \in Turns : Retry(t)
    \/ \E t \in Turns :
          \E batch \in Batches(t, turns[t].srv, Min(MaxBatch, budget.events)) :
              ReadData(t, batch)
    \/ \E t \in Turns : ReadDone(t)
    \/ \E t \in Turns : ReadFail(t)
    \/ \E t \in Turns : ReadAbort(t)
    \/ CancelStream
    \/ ClearChat
    \/ ClearError
    \/ AuthInitialized

(* With the approval calls. *)
NextPlain ==
    \/ NextCalls
    \/ \E t \in Turns, i \in 1..(3 * MaxTurns), approved \in BOOLEAN :
          SendMcpApproval(t, i, approved)

(* With the attachment conversion of sendMessage. *)
NextFiles ==
    \/ NextCalls
    \/ \E t \in Turns : PrepareOk(t)
    \/ \E t \in Turns : PrepareFail(t)

(* Every step of the program. *)
Next ==
    \/ NextPlain
    \/ \E t \in Turns : PrepareOk(t)
    \/ \E t \in Turns : PrepareFail(t)

(* The program, within every bound of the model at once. *)
Spec == Init /\ [][Next]_vars

(* The specifications below keep a run to the part of the model a property  *)
(* is about: each starts from Init with a budget that leaves the other      *)
(* parts out.                                                               *)

(* Calls without attachments that may overlap. *)
InitCalls ==
    /\ Init!1 /\ Init!2 /\ Init!3 /\ Init!4 /\ Init!5 /\ Init!6
    /\ budget = [events |-> MaxEvents, controls |-> MaxControls, noise |-> 0,
                 skew |-> 0, files |-> 0, early |-> MaxEarly, signIn |-> 1,
                 releases |-> 0, sequential |-> FALSE]
    /\ emitted = <<>>
    /\ op = [name |-> "init", turn |-> 0]
    /\ sse = NoBody
    /\ endpoint = NoRequest

SpecCalls == InitCalls /\ [][NextPlain]_vars

(* One call at a time, with a longer stream and a releaseLock that may      *)
(* throw.                                                                   *)
InitStream ==
    /\ Init!1 /\ Init!2 /\ Init!3 /\ Init!4 /\ Init!5 /\ Init!6
    /\ budget = [events |-> MaxStreamEvents, controls |-> MaxControls, noise |-> 0,
                 skew |-> 0, files |-> 0, early |-> MaxEarly, signIn |-> 1,
                 releases |-> MaxReleaseFailures, sequential |-> TRUE]
    /\ emitted = <<>>
    /\ op = [name |-> "init", turn |-> 0]
    /\ sse = NoBody
    /\ endpoint = NoRequest

SpecStream == InitStream /\ [][NextPlain]_vars

(* sendMessage calls that may overlap, with attachments, on short streams. *)
InitFiles ==
    /\ Init!1 /\ Init!2 /\ Init!3 /\ Init!4 /\ Init!5 /\ Init!6
    /\ budget = [events |-> MaxFileEvents, controls |-> MaxControls, noise |-> 0,
                 skew |-> 0, files |-> MaxFileTurns, early |-> MaxEarly, signIn |-> 1,
                 releases |-> 0, sequential |-> FALSE]
    /\ emitted = <<>>
    /\ op = [name |-> "init", turn |-> 0]
    /\ sse = NoBody
    /\ endpoint = NoRequest

SpecFiles == InitFiles /\ [][NextFiles]_vars

(* One call at a time, on bodies that may hold an unrecognised record, with *)
(* operations called before the sign-in completed.                         *)
InitNoise ==
    /\ Init!1 /\ Init!2 /\ Init!3 /\ Init!4 /\ Init!5 /\ Init!6
    /\ budget = [events |-> MaxNoiseEvents, controls |-> MaxControls,
                 noise |-> MaxNoise, skew |-> 0, files |-> 0,
                 early |-> MaxTurns + MaxControls, signIn |-> 1,
                 releases |-> 0, sequential |-> TRUE]
    /\ emitted = <<>>
    /\ op = [name |-> "init", turn |-> 0]
    /\ sse = NoBody
    /\ endpoint = NoRequest

SpecNoise == InitNoise /\ [][NextPlain]_vars

(* One call at a time, with a clock that may advance while a call runs the  *)
(* code of lines 477-495 (717-718).                                         *)
InitClock ==
    /\ Init!1 /\ Init!2 /\ Init!3 /\ Init!4 /\ Init!5 /\ Init!6
    /\ budget = [events |-> MaxEvents, controls |-> MaxControls, noise |-> 0,
                 skew |-> MaxSkew, files |-> 0, early |-> MaxEarly, signIn |-> 1,
                 releases |-> 0, sequential |-> TRUE]
    /\ emitted = <<>>
    /\ op = [name |-> "init", turn |-> 0]
    /\ sse = NoBody
    /\ endpoint = NoRequest

SpecClock == InitClock /\ [][NextPlain]_vars

----------------------------------------------------------------------------
(* The response body as bytes (lines 581-588 of processStream).  The chat    *)
(* model above takes a read as the list of the events it completes; here a   *)
(* body is a sequence of bytes cut into reads at arbitrary places, and the   *)
(* loop turns it back into records.  splitSseBuffer lives in utils/sseParser. *)

(* The separator byte and character of "\n". *)
LF == "LF"

(* The characters a record is made of: one of one byte, one of two bytes. *)
RecordChars == {"a", "U+00E9"}

(* The UTF-8 encoding of a character. *)
Utf8(ch) == IF ch = "U+00E9" THEN <<"C3", "A9">> ELSE <<ch>>

RECURSIVE Utf8All(_)
Utf8All(text) ==
    IF text = <<>> THEN <<>> ELSE Utf8(Head(text)) \o Utf8All(Tail(text))

RECURSIVE WriteEvents(_)
(* response.WriteAsync($"data: {json}\n\n") for each record, in order. *)
WriteEvents(records) ==
    IF records = <<>> THEN <<>>
    ELSE Utf8All(Head(records) \o <<LF, LF>>) \o WriteEvents(Tail(records))

RECURSIVE decode(_, _)
(* decoder.decode(value, { stream: true }) (line 584): the text of the bytes *)
(* of value, after the byte the decoder held back (pending, "" for none);    *)
(* a lead byte at the end of value is held back for the next call.           *)
decode(pending, value) ==
    IF value = <<>> THEN [text |-> <<>>, pending |-> pending]
    ELSE LET b == Head(value) IN
         IF pending = "C3"
         THEN IF b = "A9"
              THEN LET r == decode("", Tail(value))
                   IN [r EXCEPT !.text = <<"U+00E9">> \o @]
              ELSE LET r == decode("", value)
                   IN [r EXCEPT !.text = <<"U+FFFD">> \o @]
         ELSE IF b = "C3" THEN decode("C3", Tail(value))
         ELSE LET r == decode("", Tail(value))
              IN [r EXCEPT !.text = <<(IF b = "A9" THEN "U+FFFD" ELSE b)>> \o @]

RECURSIVE splitSseBuffer(_)
(* The complete records of buffer, each without its "\n\n", and the text    *)
(* after the last separator.                                                *)
splitSseBuffer(buffer) ==
    IF \E i \in 1..(Len(buffer) - 1) : buffer[i] = LF /\ buffer[i + 1] = LF
    THEN LET i == CHOOSE i \in 1..(Len(buffer) - 1) :
                      /\ buffer[i] = LF /\ buffer[i + 1] = LF
                      /\ \A j \in 1..(i - 1) : ~(buffer[j] = LF /\ buffer[j + 1] = LF)
             rest == splitSseBuffer(SubSeq(buffer, i + 2, Len(buffer)))
         IN [lines |-> <<SubSeq(buffer, 1, i - 1)>> \o rest.lines,
             remaining |-> rest.remaining]
    ELSE [lines |-> <<>>, remaining |-> buffer]

(* buffer += chunk (line 585) that forgets what was held. *)
MutAccumulateReplaces(buffer, chunk) == chunk

(* buffer += chunk (line 585). *)
Accumulate(buffer, chunk) == buffer \o chunk

(* The texts of 1..MaxRecordLen characters. *)
RecordTexts ==
    UNION {[1..n -> RecordChars] : n \in 1..MaxRecordLen}

(* The bodies of 1..MaxRecords records. *)
Bodies ==
    UNION {[1..n -> RecordTexts] : n \in 1..MaxRecords}

(* The bytes of the body that the reads made so far have delivered. *)
RECURSIVE Sum(_)
Sum(ns) == IF ns = <<>> THEN 0 ELSE Head(ns) + Sum(Tail(ns))

(* reader.read() resolved with the next n bytes of the body (lines 581-588): *)
(* decode, accumulate, split, keep the remainder; the records go to the     *)
(* for loop of line 590.                                                    *)
SseRead(n) ==
    /\ ~sse.done
    /\ n \in 0..(Len(sse.body) - Sum(sse.reads))
    /\ n = 0 => Cardinality({i \in 1..Len(sse.reads) : sse.reads[i] = 0}) < MaxEmptyReads
    /\ LET from  == Sum(sse.reads)
           value == SubSeq(sse.body, from + 1, from + n)
           d     == decode(sse.pending, value)
           split == splitSseBuffer(Accumulate(sse.buffer, d.text))
       IN sse' = [sse EXCEPT !.reads = Append(@, n),
                             !.pending = d.pending,
                             !.buffer = split.remaining,
                             !.lines = @ \o split.lines]
    /\ UNCHANGED <<state, currentStreamAbort, streamCancelled, aborted, turns,
                   now, budget, emitted, op, endpoint>>

(* reader.read() resolved with done after the last byte (line 582). *)
SseEnd ==
    /\ ~sse.done
    /\ Sum(sse.reads) = Len(sse.body)
    /\ sse' = [sse EXCEPT !.done = TRUE]
    /\ UNCHANGED <<state, currentStreamAbort, streamCancelled, aborted, turns,
                   now, budget, emitted, op, endpoint>>

InitSse ==
    /\ Init!1 /\ Init!2 /\ Init!3 /\ Init!4 /\ Init!5 /\ Init!6
    /\ Init!7 /\ Init!8 /\ Init!9 /\ Init!11
    /\ \E records \in Bodies :
          sse = [NoBody EXCEPT !.sent = records, !.body = WriteEvents(records)]

NextSse ==
    \/ \E n \in 0..(MaxRecords * (2 * MaxRecordLen + 2)) : SseRead(n)
    \/ SseEnd

SpecSse == InitSse /\ [][NextSse]_vars

----------------------------------------------------------------------------
(* The reducer on its own (lines 17-261): any AppAction may be dispatched   *)
(* in any state, whatever ChatService would do.  The payloads are drawn     *)
(* from small sets of the values their TypeScript types allow.              *)

IntentIds == {"1", "2"}

UserMessage(id) ==
    [id |-> id, role |-> "user", content |-> MessageText, time |-> toISOString(now),
     attachments |-> Undefined, annotations |-> <<>>, usage |-> Undefined,
     mcpApproval |-> NoApproval]

Intents ==
    {[type |-> "AUTH_INITIALIZED"], [type |-> "AUTH_TOKEN_EXPIRED"],
     [type |-> "CHAT_CANCEL_STREAM"], [type |-> "CHAT_CLEAR_ERROR"],
     [type |-> "CHAT_CLEAR"]}
    \cup {[type |-> "CHAT_SEND_MESSAGE", message |-> UserMessage(id)] : id \in IntentIds}
    \cup {[type |-> "CHAT_ADD_ASSISTANT_MESSAGE", messageId |-> id] : id \in IntentIds}
    \cup {[type |-> "CHAT_START_STREAM", conversationId |-> cid, messageId |-> id] :
            cid \in {Undefined, "conv-1"}, id \in IntentIds}
    \cup {[type |-> "CHAT_STREAM_CHUNK", messageId |-> id, content |-> "Hel"] :
            id \in IntentIds}
    \cup {[type |-> "CHAT_STREAM_ANNOTATIONS", messageId |-> id,
           annotations |-> <<"note">>] : id \in IntentIds}
    \cup {[type |-> "CHAT_MCP_APPROVAL_REQUEST", messageId |-> id,
           approvalRequest |-> "req-1", previousResponseId |-> Undefined] :
            id \in IntentIds}
    \cup {[type |-> "CHAT_STREAM_COMPLETE", usage |-> "usage", responseId |-> r] :
            r \in {Undefined, "resp-1"}}
    \cup {ErrorIntent(createAppError(code, 0)) : code \in {"STREAM", "AUTH"}}

(* The bounds of the run: the list of messages, the text and the notes of a *)
(* message stay short.                                                      *)
WithinIntentBounds(s) ==
    /\ Len(s.chat.messages) <= MaxIntentMessages
    /\ \A i \in 1..Len(s.chat.messages) :
          /\ s.chat.messages[i].content \in {"", "Hel", MessageText}
          /\ Len(s.chat.messages[i].annotations) <= 1

(* dispatch(a): the state becomes appReducer(state, a). *)
DispatchIntent(a) ==
    LET c == Dispatch(Ctx(state), a, 0, "dispatch") IN
    /\ WithinIntentBounds(c.st)
    /\ state' = c.st
    /\ emitted' = c.em
    /\ op' = [name |-> "dispatch", turn |-> 0]
    /\ UNCHANGED <<currentStreamAbort, streamCancelled, aborted, turns, now,
                   budget, sse, endpoint>>

NextIntents == \E a \in Intents : DispatchIntent(a)

SpecIntents == Init /\ [][NextIntents]_vars

----------------------------------------------------------------------------
(* The endpoint POST /api/chat/stream (part_001, lines 184-272) handling    *)
(* one request.  `written` is the list of the events put in the response;   *)
(* `items` bounds what StreamMessageAsync still yields.  Every step of the   *)
(* handler is an awaited call that may throw.                               *)

(* An exception inside the try block: control passes to a catch block. *)
Throw(ep) == [ep EXCEPT !.pc = "catch"]

(* await response.WriteAsync(record, ct); await response.Body.FlushAsync(ct) *)
(* inside the try block, control going on at pc next: both succeed, the     *)
(* write throws, or the flush throws after the write.                       *)
WriteEvent(ep, type, next) ==
    {[ep EXCEPT !.written = Append(@, type), !.pc = next],
     Throw(ep),
     Throw([ep EXCEPT !.written = Append(@, type)])}

EndpointStep(eps) ==
    /\ endpoint' \in eps
    /\ UNCHANGED <<state, currentStreamAbort, streamCancelled, aborted, turns,
                   now, budget, emitted, op, sse>>

(* request.ConversationId ?? await CreateConversationAsync(...) (196-197). *)
CreateConversationAsync ==
    /\ endpoint.pc = "start"
    /\ EndpointStep(IF endpoint.conversation
                    THEN {[endpoint EXCEPT !.pc = "cid"]}
                    ELSE {[endpoint EXCEPT !.pc = "cid"], Throw(endpoint)})

(* Line 199. *)
WriteConversationIdEvent ==
    /\ endpoint.pc = "cid"
    /\ EndpointStep(WriteEvent(endpoint, "conversationId", "stream"))

(* What StreamMessageAsync yields (AgentFrameworkService, lines 224-287): a *)
(* text delta, annotations, an approval request, a response id; "empty" is  *)
(* an item none of the four branches of lines 213-229 takes.                *)
StreamChunks == {"text", "annotations", "mcpApproval", "responseId", "empty"}

(* One round of the await foreach (lines 204-230). *)
StreamItem(chunk) ==
    /\ endpoint.pc = "stream"
    /\ endpoint.items > 0
    /\ LET ep == [endpoint EXCEPT !.items = @ - 1] IN
       EndpointStep(
          CASE chunk = "text" -> WriteEvent(ep, "chunk", "stream")
            [] chunk = "annotations" -> WriteEvent(ep, "annotations", "stream")
            [] chunk = "mcpApproval" -> WriteEvent(ep, "mcpApprovalRequest", "stream")
            [] OTHER -> {ep})

(* StreamMessageAsync throws: invalid input (line 188, BuildUserMessage), a *)
(* failing client call (line 216), an error update (line 331), a cancelled  *)
(* request.                                                                 *)
StreamThrows ==
    /\ endpoint.pc = "stream"
    /\ EndpointStep({Throw(endpoint)})

(* The enumeration ends (line 230). *)
StreamEnds ==
    /\ endpoint.pc = "stream"
    /\ EndpointStep({[endpoint EXCEPT !.pc = "usage"]})

(* Lines 232-241. *)
WriteUsageEvent ==
    /\ endpoint.pc = "usage"
    /\ EndpointStep(WriteEvent(endpoint, "usage", "done"))

(* Line 243: after it the handler returns. *)
WriteDoneEvent ==
    /\ endpoint.pc = "done"
    /\ EndpointStep({IF ep.pc = "end" THEN [ep EXCEPT !.result = "completed"] ELSE ep :
                     ep \in WriteEvent(endpoint, "done", "end")})

(* An error handler that closes the stream with a done event. *)
MutWriteErrorEventThenDone ==
    /\ endpoint.pc = "catch"
    /\ EndpointStep({[endpoint EXCEPT !.written = @ \o <<"error", "done">>,
                                      !.pc = "end", !.result = "failed"]})

(* Either catch block (lines 245-269): WriteErrorEvent, and the handler     *)
(* returns.  Nothing catches what WriteErrorEvent throws: the exception     *)
(* leaves the handler.                                                      *)
WriteErrorEvent ==
    /\ endpoint.pc = "catch"
    /\ EndpointStep({[endpoint EXCEPT !.written = Append(@, "error"),
                                      !.pc = "end", !.result = "failed"],
                     [endpoint EXCEPT !.pc = "end", !.result = "unhandled"],
                     [endpoint EXCEPT !.written = Append(@, "error"),
                                      !.pc = "end", !.result = "unhandled"]})

(* A request arrives, with or without a conversation id. *)
InitEndpoint ==
    /\ Init!1 /\ Init!2 /\ Init!3 /\ Init!4 /\ Init!5 /\ Init!6
    /\ Init!7 /\ Init!8 /\ Init!9 /\ Init!10
    /\ \E conversation \in BOOLEAN :
          endpoint = [NoRequest EXCEPT !.pc = "start", !.conversation = conversation,
                                       !.items = MaxItems]

NextEndpoint ==
    \/ CreateConversationAsync
    \/ WriteConversationIdEvent
    \/ \E chunk \in StreamChunks : StreamItem(chunk)
    \/ StreamThrows
    \/ StreamEnds
    \/ WriteUsageEvent
    \/ WriteDoneEvent
    \/ WriteErrorEvent

SpecEndpoint == InitEndpoint /\ [][NextEndpoint]_vars

----------------------------------------------------------------------------
(* Properties.                                                              *)

(* The step just taken was the start of call t: its placeholder was added  *)
(* and CHAT_START_STREAM dispatched, the request not yet answered.          *)
JustBegan(t) ==
    /\ op.turn = t
    /\ op.name \in {"token", "prepare"}
    /\ turns[t].pc = "fetch"

RECURSIVE DistinctFromPredecessor(_)
(* The payloads of s that differ from the payload right before them. *)
DistinctFromPredecessor(s) ==
    IF Len(s) <= 1 THEN s
    ELSE LET r == DistinctFromPredecessor(SubSeq(s, 1, Len(s) - 1))
         IN IF s[Len(s)] = s[Len(s) - 1] THEN r ELSE Append(r, s[Len(s)])

(* C1: the content of a stream's assistant message is the concatenation, in *)
(* arrival order, of the chunk payloads delivered on that stream that       *)
(* differ from their predecessor (immediate duplicates dropped, other       *)
(* repeats kept).                                                           *)
C1_ChunkContent ==
    \A t \in Turns :
        turns[t].slot # 0 =>
            state.chat.messages[turns[t].slot].content
                = SeqConcat(DistinctFromPredecessor(turns[t].recv))

(* C2: while an approval request raised by a stream is undecided and the    *)
(* chat input is disabled, no read of that same stream that the stream      *)
(* survives (its events were handled without an error) enables the input.   *)
ApprovalPending(t) ==
    /\ turns[t].messageId # Undefined
    /\ \E i \in 1..Len(state.chat.messages) :
          /\ state.chat.messages[i].role = "approval"
          /\ state.chat.messages[i].id = "approval-" \o turns[t].messageId
    /\ \A u \in Turns : turns[u].kind # "approval"

C2_InputFrozenUntilApproval ==
    [][\A t \in Turns :
          ( /\ ApprovalPending(t)
            /\ ~state.ui.chatInputEnabled
            /\ turns[t].pc = "read"
            /\ op'.name = "read" /\ op'.turn = t
            /\ turns'[t].pc \in {"read", "returned"} )
          => ~state'.ui.chatInputEnabled]_vars

(* C3: when a call starts its stream, every call that was in progress when  *)
(* it was made has had its stream cancelled (its controller aborted, which  *)
(* the program does together with setting the flag and dispatching          *)
(* CHAT_CANCEL_STREAM).                                                     *)
C3_OldStreamCancelledFirst ==
    \A t \in Turns :
        JustBegan(t) => \A u \in turns[t].callActive : u \in aborted

(* A read loop that is consuming a response body which was not aborted. *)
LiveLoop(t) == turns[t].pc = "read" /\ turns[t].sig \notin aborted

(* C4: at most one read loop is consuming a response body at any moment.    *)
C4_OneLiveLoop ==
    Cardinality({t \in Turns : LiveLoop(t)}) <= 1

(* C5: a call whose request or read ends with the abort of its own stream  *)
(* (every abort in the program comes from cancelStream or from a            *)
(* superseding sendMessage) dispatches no CHAT_ERROR on that exit.          *)
C5_AbortNeverAnError ==
    \A t \in Turns :
        ( /\ op.name \in {"fetch", "read"} /\ op.turn = t
          /\ turns[t].sig \in aborted
          /\ \/ turns[t].pc \in {"returned", "aborted"}
             \/ turns[t].pc = "thrown" /\ turns[t].err = ThrownAbort )
        => \A i \in 1..Len(emitted) : emitted[i].intent.type # "CHAT_ERROR"

(* C6: when the read loop of a stream that cancelStream() interrupted has   *)
(* just exited, and nothing else was started, the chat is idle with no      *)
(* streaming message, no error and the input enabled.                       *)
C6_IdleAfterCancel ==
    \A t \in Turns :
        ( /\ op.name = "read" /\ op.turn = t
          /\ turns[t].mark = "cancelled"
          /\ turns[t].pc \in {"returned", "thrown"}
          /\ \A u \in Turns \ {t} : turns[u].pc = "new" )
        => /\ state.chat.status = "idle"
           /\ state.chat.streamingMessageId = Undefined
           /\ state.ui.chatInputEnabled
           /\ state.chat.error = NoError

(* C7: cancelStream() called while no request and no read loop is in        *)
(* progress dispatches nothing and changes nothing.                         *)
C7_CancelIsNoOpWhenIdle ==
    [][(op'.name = "cancelStream" /\ \A t \in Turns : ~Active(turns[t]))
          => /\ emitted' = <<>>
             /\ state' = state
             /\ streamCancelled' = streamCancelled
             /\ aborted' = aborted]_vars

(* C8: a dispatched CHAT_STREAM_CHUNK or CHAT_STREAM_ANNOTATIONS changes    *)
(* the state only when its messageId is the chat.streamingMessageId it      *)
(* meets, and never when that is undefined.                                 *)
C8_OnlyStreamingMessageMutable ==
    \A i \in 1..Len(emitted) :
        ( /\ emitted[i].intent.type \in {"CHAT_STREAM_CHUNK", "CHAT_STREAM_ANNOTATIONS"}
          /\ emitted[i].changed )
        => /\ emitted[i].sid # Undefined
           /\ emitted[i].intent.messageId = emitted[i].sid

(* C9: the step in which a sendMessage call, past the token and the         *)
(* attachment conversion, reaches its request dispatches exactly            *)
(* CHAT_SEND_MESSAGE (a user message with the given text),                  *)
(* CHAT_ADD_ASSISTANT_MESSAGE and CHAT_START_STREAM for the placeholder's   *)
(* id, in this order, and leaves the chat streaming with the input          *)
(* disabled.                                                                *)
C9_SendMessageIntents ==
    \A t \in Turns :
        (JustBegan(t) /\ turns[t].kind = "msg")
        => /\ EmittedTypes = <<"CHAT_SEND_MESSAGE", "CHAT_ADD_ASSISTANT_MESSAGE",
                               "CHAT_START_STREAM">>
           /\ emitted[1].intent.message.role = "user"
           /\ emitted[1].intent.message.content = MessageText
           /\ emitted[3].intent.messageId = emitted[2].intent.messageId
           /\ state.chat.messages[Len(state.chat.messages)].id
                 = emitted[3].intent.messageId
           /\ state.chat.messages[Len(state.chat.messages)].role = "assistant"
           /\ turns[t].attempts = 1
           /\ state.chat.status = "streaming"
           /\ ~state.ui.chatInputEnabled

(* A sendMessage call with attachments has just started its stream. *)
C9_Witness ==
    \E t \in Turns :
        JustBegan(t) /\ turns[t].kind = "msg" /\ op.name = "prepare"

(* The step just taken ended call t by a failure that is not a benign       *)
(* cancellation: an error, or the abort of its request while the            *)
(* cancellation flag is not set.                                            *)
FailedNotBenign(t) ==
    /\ op.turn = t
    /\ \/ turns[t].pc = "failed"
       \/ /\ turns[t].pc = "aborted"
          /\ op.name = "fetch"
          /\ ~streamCancelled

(* C10: the step in which a call fails, other than by a benign              *)
(* cancellation, dispatches at least one CHAT_ERROR and leaves              *)
(* chat.status = "error" with chat.error set.                               *)
C10_FailureRaisesChatError ==
    \A t \in Turns :
        FailedNotBenign(t)
        => /\ \E i \in 1..Len(emitted) :
                 emitted[i].intent.type = "CHAT_ERROR" /\ emitted[i].by = t
           /\ state.chat.status = "error"
           /\ state.chat.error # NoError

(* C11: when a sendMessage call fails after its request was issued (a      *)
(* failed request, an unreadable body, an error in the stream), the error   *)
(* left in chat.error carries a retry action, and that action re-sends the  *)
(* arguments of this call.                                                  *)
C11_FailureCarriesRetry ==
    \A t \in Turns :
        ( /\ op.turn = t /\ op.name \in {"fetch", "backoff", "catch"}
          /\ turns[t].kind = "msg"
          /\ turns[t].pc = "failed" )
        => state.chat.error.retry = t

(* The request of call t has just failed for good, answered with status. *)
RequestJustFailed(t, status) ==
    /\ op.turn = t /\ op.name = "fetch"
    /\ turns[t].pc = "failed"
    /\ turns[t].lastStatus = status

(* C12: when the request of a sendMessage call fails with HTTP 401, the     *)
(* step dispatches AUTH_TOKEN_EXPIRED and then CHAT_ERROR, and leaves       *)
(* auth.status = "unauthenticated", chat.status = "error" and the chat      *)
(* input enabled exactly if the error is recoverable.                       *)
C12_Unauthorized ==
    \A t \in Turns :
        (RequestJustFailed(t, 401) /\ turns[t].kind = "msg")
        => /\ EmittedTypes = <<"AUTH_TOKEN_EXPIRED", "CHAT_ERROR">>
           /\ state.auth.status = "unauthenticated"
           /\ state.chat.status = "error"
           /\ state.chat.error = emitted[2].intent.error
           /\ state.ui.chatInputEnabled = emitted[2].intent.error.recoverable

(* A sendMessage call whose request was answered 401 has just failed, the   *)
(* signal of the request having fired (cancelStream, or a superseding call) *)
(* between the answer and the failure.                                      *)
C12_Witness ==
    \E t \in Turns :
        /\ RequestJustFailed(t, 401) /\ turns[t].kind = "msg"
        /\ turns[t].sig \in aborted

(* C13: when the request of any call, an approval call included, fails with *)
(* HTTP 401, the step dispatches AUTH_TOKEN_EXPIRED and CHAT_ERROR and      *)
(* leaves auth.status = "unauthenticated" with the chat error recorded.     *)
C13_UnauthorizedAnyTurn ==
    \A t \in Turns :
        RequestJustFailed(t, 401)
        => /\ \E i \in 1..Len(emitted) : emitted[i].intent.type = "AUTH_TOKEN_EXPIRED"
           /\ state.auth.status = "unauthenticated"
           /\ state.chat.status = "error"

(* The intents of a step, without those that report a failure. *)
WithoutErrors(ems) ==
    SelectSeq(ems, LAMBDA e : e.intent.type \notin {"CHAT_ERROR", "AUTH_TOKEN_EXPIRED"})

RECURSIVE Replay(_, _)
(* The states the reducer passes through on the intents ems, from s. *)
Replay(s, ems) ==
    IF ems = <<>> THEN <<s>>
    ELSE <<s>> \o Replay(appReducerAt(s, Head(ems).intent, Head(ems).date),
                         Tail(ems))

(* The state the reducer reaches from s on the intents ems. *)
ReplayEnd(s, ems) == Replay(s, ems)[Len(ems) + 1]

(* The step is one of a sendMessage call t failing before its request: the  *)
(* token is unavailable, the attachment conversion rejects, or the call is  *)
(* resumed with what the conversion threw.                                  *)
FailsBeforeRequest(t) ==
    /\ turns[t].kind = "msg"
    /\ \/ turns[t].pc = "token" /\ turns'[t].pc = "failed"
       \/ turns[t].pc = "prepare" /\ turns'[t].pc = "thrown"
       \/ turns[t].pc = "thrown" /\ turns[t].attempts = 0 /\ turns'[t].pc = "failed"

(* C14: each step in which a sendMessage call fails at the token or at the  *)
(* attachment conversion dispatches CHAT_ERROR (of kind AUTH for the        *)
(* token) and none of CHAT_SEND_MESSAGE, CHAT_ADD_ASSISTANT_MESSAGE,        *)
(* CHAT_START_STREAM; no request was issued and chat.messages is as before. *)
C14_FailsBeforeAnyMessage ==
    [][\A t \in Turns :
          FailsBeforeRequest(t)
          => /\ \E i \in 1..Len(emitted') : emitted'[i].intent.type = "CHAT_ERROR"
             /\ \A i \in 1..Len(emitted') :
                   emitted'[i].intent.type \notin
                       {"CHAT_SEND_MESSAGE", "CHAT_ADD_ASSISTANT_MESSAGE",
                        "CHAT_START_STREAM"}
             /\ turns[t].pc = "token" => state'.chat.error.code = "AUTH"
             /\ turns'[t].attempts = 0
             /\ turns'[t].messageId = Undefined
             /\ state'.chat.messages = state.chat.messages
             /\ state'.chat.status = "error"]_vars

(* A sendMessage call that failed at the attachment conversion has just     *)
(* been resumed in its catch block, in a chat that already holds messages.  *)
C14_Witness ==
    \E t \in Turns :
        /\ op.turn = t /\ op.name = "catch"
        /\ turns[t].pc = "failed"
        /\ turns[t].files /\ turns[t].attempts = 0
        /\ EmittedTypes = <<"CHAT_ERROR">>
        /\ Len(state.chat.messages) > 0

(* C15: in the steps in which a read loop fails (the read that throws, and  *)
(* the catch block of the call resumed with it), the intents that report the *)
(* failure leave chat.messages as the events handled before them made it:   *)
(* the call's assistant message is still in its place with the content and  *)
(* annotations accumulated so far.                                          *)
C15_PartialAnswerKept ==
    [][\A t \in Turns :
          ( \/ turns[t].pc = "read" /\ turns'[t].pc = "thrown"
            \/ turns[t].pc = "thrown" /\ turns'[t].pc \in {"failed", "aborted"} )
          => /\ state'.chat.messages
                   = ReplayEnd(state, WithoutErrors(emitted')).chat.messages
             /\ turns[t].slot # 0 =>
                   /\ turns[t].slot <= Len(state'.chat.messages)
                   /\ state'.chat.messages[turns[t].slot].id = turns[t].messageId
                   /\ state'.chat.messages[turns[t].slot].role = "assistant"
             /\ emitted'[1].intent.type = "CHAT_ERROR" =>
                   state'.chat.messages = state.chat.messages]_vars

(* A stream failed on an error event, its assistant message holding text    *)
(* and annotations, and the catch block of the call has just reported it.   *)
C15_Witness ==
    \E t \in Turns :
        /\ op.turn = t /\ op.name = "catch"
        /\ turns[t].pc = "failed"
        /\ turns[t].srv = "failed"
        /\ EmittedTypes = <<"CHAT_ERROR">>
        /\ turns[t].slot # 0
        /\ state.chat.messages[turns[t].slot].content # ""
        /\ state.chat.messages[turns[t].slot].annotations # <<>>

(* C16: a call attempts its request at most 3 times, and once its response  *)
(* body is being read it issues no further request: the read loop goes on   *)
(* reading or is left, and the call then ends.                              *)
C16_BoundedAttempts ==
    [][\A t \in Turns :
          /\ turns'[t].attempts <= 3
          /\ turns[t].pc = "read" =>
                /\ turns'[t].attempts = turns[t].attempts
                /\ turns'[t].pc \in {"read", "returned", "thrown"}
          /\ turns[t].pc \in {"returned", "thrown"} =>
                /\ turns'[t].attempts = turns[t].attempts
                /\ turns'[t].pc \in {turns[t].pc, "done", "failed", "aborted"}]_vars

(* A call whose request took three attempts failed in its stream and has    *)
(* just ended in its catch block.                                           *)
C16_Witness ==
    \E t \in Turns :
        /\ op.turn = t /\ op.name = "catch"
        /\ turns[t].pc = "failed"
        /\ turns[t].locked
        /\ turns[t].attempts = 3

(* C17: after a step that ends with the CHAT_STREAM_COMPLETE of a call,     *)
(* chat.lastResponseId is not the response id of another call.              *)
C17_LastResponseIdIsCurrent ==
    \A t \in Turns :
        ( /\ op.turn = t /\ emitted # <<>>
          /\ emitted[Len(emitted)].intent.type = "CHAT_STREAM_COMPLETE" )
        => state.chat.lastResponseId \notin {ServerResponseId(u) : u \in Turns \ {t}}

(* C18: the continuation token held by an approval message is empty or the *)
(* response id of a call; it is not a conversation id.                      *)
C18_ApprovalTokenIsResponseId ==
    \A i \in 1..Len(state.chat.messages) :
        state.chat.messages[i].role = "approval"
        => /\ state.chat.messages[i].mcpApproval.previousResponseId
                 \in {""} \cup {ServerResponseId(t) : t \in Turns}
           /\ state.chat.messages[i].mcpApproval.previousResponseId
                 \notin {ServerConversationId(t) : t \in Turns}

(* A conversation id that is set. *)
ConversationKnown(s) == ~Falsy(s.chat.currentConversationId)

(* C19: every dispatched intent other than CHAT_CLEAR that meets a state    *)
(* with chat.currentConversationId set leaves it set.                       *)
C19_ConversationIdKept ==
    [][LET R == Replay(state, emitted')
       IN /\ state' = R[Len(emitted') + 1]
          /\ \A k \in 1..Len(emitted') :
                (ConversationKnown(R[k]) /\ emitted'[k].intent.type # "CHAT_CLEAR")
                => ConversationKnown(R[k + 1])]_vars

(* A call has just dispatched CHAT_START_STREAM without a conversation id   *)
(* into a chat whose conversation id is set.                                *)
C19_Witness ==
    \E t \in Turns :
        /\ JustBegan(t) /\ turns[t].kind = "msg"
        /\ emitted[3].intent.conversationId = Undefined
        /\ ConversationKnown(state)

(* Message n is message m, possibly with content or annotations appended,   *)
(* or with its usage written by an intent of the given type.                *)
SameMessageGrown(m, n, type) ==
    /\ n.id = m.id
    /\ n.role = m.role
    /\ n.attachments = m.attachments
    /\ n.mcpApproval = m.mcpApproval
    /\ n.content = m.content \/ \E x \in ChunkTexts : n.content = m.content \o x
    /\ Len(n.annotations) >= Len(m.annotations)
    /\ SubSeq(n.annotations, 1, Len(m.annotations)) = m.annotations
    /\ n.usage = m.usage \/ type = "CHAT_STREAM_COMPLETE"

(* C20: every dispatched intent other than CHAT_CLEAR keeps the messages it *)
(* meets, in their places with their ids and roles: chat.messages does not  *)
(* shrink or reorder, and a message changes only by appended content or     *)
(* annotations or by the usage written on CHAT_STREAM_COMPLETE.             *)
C20_MessagesAppendOnly ==
    [][LET R == Replay(state, emitted')
       IN /\ state' = R[Len(emitted') + 1]
          /\ \A k \in 1..Len(emitted') :
                emitted'[k].intent.type # "CHAT_CLEAR"
                => /\ Len(R[k + 1].chat.messages) >= Len(R[k].chat.messages)
                   /\ \A i \in 1..Len(R[k].chat.messages) :
                         SameMessageGrown(R[k].chat.messages[i],
                                          R[k + 1].chat.messages[i],
                                          emitted'[k].intent.type)]_vars

(* cancelStream() has just cancelled a stream whose placeholder is in the   *)
(* chat.                                                                    *)
C20_Witness ==
    /\ op.name = "cancelStream"
    /\ emitted # <<>>
    /\ \E i \in 1..Len(state.chat.messages) :
          state.chat.messages[i].id = emitted[1].sid

(* C21: at every moment the ids of the messages in state.chat.messages are  *)
(* pairwise distinct.                                                        *)
C21_DistinctMessageIds ==
    \A i, j \in 1..Len(state.chat.messages) :
        i # j => state.chat.messages[i].id # state.chat.messages[j].id

(* C22: the usage of an assistant message is written only by the usage      *)
(* event of the stream that produced it: a step of the stream of call t     *)
(* never changes the usage of the assistant message of another call u,      *)
(* the ids of the two messages being different.                             *)
C22_UsageOnlyFromOwnStream ==
    [][\A t \in Turns : \A u \in Turns \ {t} :
          ( /\ op'.turn = t
            /\ op'.name = "read"
            /\ turns[u].slot # 0
            /\ turns[u].messageId # turns[t].messageId )
          => state'.chat.messages[turns[u].slot].usage
                 = state.chat.messages[turns[u].slot].usage]_vars

(* C23: CHAT_STREAM_CHUNK and CHAT_STREAM_ANNOTATIONS whose messageId is    *)
(* the id of no message of chat.messages return the state they were given:  *)
(* for every intent dispatched in a step, if it is of one of these two      *)
(* types and no message carries its messageId, the state after the intent   *)
(* equals the state before it.                                              *)
C23_UnknownMessageIsNoOp ==
    [][LET r == Replay(state, emitted') IN
       \A k \in 1..Len(emitted') :
          ( /\ emitted'[k].intent.type
                   \in {"CHAT_STREAM_CHUNK", "CHAT_STREAM_ANNOTATIONS"}
            /\ \A i \in 1..Len(r[k].chat.messages) :
                   r[k].chat.messages[i].id # emitted'[k].intent.messageId )
          => r[k + 1] = r[k]]_vars

(* A chunk and an annotations event of a stream came in after clearChat     *)
(* had emptied the list.                                                    *)
C23_Witness ==
    /\ op.name = "read"
    /\ state.chat.messages = <<>>
    /\ \E k \in 1..Len(emitted) :
          /\ emitted[k].intent.type = "CHAT_STREAM_CHUNK"
          /\ ~emitted[k].changed
    /\ \E k \in 1..Len(emitted) :
          /\ emitted[k].intent.type = "CHAT_STREAM_ANNOTATIONS"
          /\ ~emitted[k].changed

(* C24: CHAT_MCP_APPROVAL_REQUEST appends exactly one message, of role      *)
(* 'approval', at the end of chat.messages, sets chat.status to 'idle' and  *)
(* ui.chatInputEnabled to false whatever it was, and leaves the earlier     *)
(* messages and auth as they were.                                          *)
C24_ApprovalRequestEffect ==
    [][LET r == Replay(state, emitted') IN
       \A k \in 1..Len(emitted') :
          emitted'[k].intent.type = "CHAT_MCP_APPROVAL_REQUEST"
          => LET before == r[k].chat.messages
                 after  == r[k + 1].chat.messages
             IN /\ Len(after) = Len(before) + 1
                /\ SubSeq(after, 1, Len(before)) = before
                /\ after[Len(after)].role = "approval"
                /\ r[k + 1].chat.status = "idle"
                /\ r[k + 1].ui.chatInputEnabled = FALSE
                /\ r[k + 1].auth = r[k].auth]_vars

(* The approval request of an in-flight read came in after cancelStream     *)
(* had enabled the input, and the input is disabled again.                  *)
C24_Witness ==
    \E t \in Turns :
        /\ op = [name |-> "read", turn |-> t]
        /\ turns[t].mark = "cancelled"
        /\ \A u \in Turns \ {t} : turns[u].pc = "new"
        /\ Len(emitted) = 1
        /\ emitted[1].intent.type = "CHAT_MCP_APPROVAL_REQUEST"
        /\ Len(state.chat.messages) = 3
        /\ state.chat.messages[3].role = "approval"
        /\ state.chat.status = "idle"
        /\ ~state.ui.chatInputEnabled

(* C25: CHAT_ERROR sets ui.chatInputEnabled to the recoverable flag of the  *)
(* error (false for a non-recoverable error), sets chat.status to 'error',  *)
(* stores the error, clears chat.streamingMessageId and leaves              *)
(* chat.messages unchanged.                                                 *)
C25_ErrorEffect ==
    [][LET r == Replay(state, emitted') IN
       \A k \in 1..Len(emitted') :
          emitted'[k].intent.type = "CHAT_ERROR"
          => /\ r[k + 1].ui.chatInputEnabled = emitted'[k].intent.error.recoverable
             /\ r[k + 1].chat.status = "error"
             /\ r[k + 1].chat.error = emitted'[k].intent.error
             /\ r[k + 1].chat.streamingMessageId = Undefined
             /\ r[k + 1].chat.messages = r[k].chat.messages]_vars

(* A non-recoverable application error was raised while an answer was       *)
(* streaming: the input stays disabled and the messages are kept.           *)
C25_Witness ==
    /\ emitted # <<>>
    /\ LET last == emitted[Len(emitted)] IN
          /\ last.intent.type = "CHAT_ERROR"
          /\ ~last.intent.error.recoverable
          /\ last.intent.error.code = "AUTH"
          /\ last.sid # Undefined
    /\ state.chat.status = "error"
    /\ state.chat.error.code = "AUTH"
    /\ ~state.ui.chatInputEnabled
    /\ state.chat.streamingMessageId = Undefined
    /\ state.chat.messages # <<>>

(* C26: CHAT_CLEAR maps every state to one whose chat substate is the       *)
(* initial chat substate and whose auth substate is unchanged, and applying *)
(* it twice gives the same state as applying it once.                       *)
C26_ClearResetsChat ==
    LET once == appReducer(state, [type |-> "CHAT_CLEAR"]) IN
    /\ once.chat = initialAppState.chat
    /\ once.auth = state.auth
    /\ appReducer(once, [type |-> "CHAT_CLEAR"]) = once

(* clearChat was called on a conversation with messages, a conversation id  *)
(* and a signed-in user.                                                    *)
C26_Witness ==
    /\ op.name = "clearChat"
    /\ EmittedTypes = <<"CHAT_CLEAR">>
    /\ emitted[1].changed
    /\ state.chat = initialAppState.chat
    /\ state.auth # initialAppState.auth
    /\ \E t \in Turns : /\ turns[t].messageId # Undefined
                        /\ turns[t].newConversationId # Null

(* C27: the reducer is a function of its arguments only: two applications   *)
(* of the same (state, intent) pair yield equal results, whatever the       *)
(* moments at which they are made.  Checked for the current state and each  *)
(* intent dispatched in the last step, at any two clock readings.           *)
C27_ReducerIsAFunction ==
    \A k \in 1..Len(emitted) : \A d1, d2 \in 1..MaxClock :
        appReducerAt(state, emitted[k].intent, d1)
            = appReducerAt(state, emitted[k].intent, d2)

(* The records that one read holding the whole body yields. *)
OneIncrement(body) == splitSseBuffer(Accumulate(<<>>, decode("", body).text)).lines

(* C28: for every valid body of records and every way of cutting it into    *)
(* reads, the records the loop has yielded are the first records of those   *)
(* that one read of the whole body yields, each complete and in order, and  *)
(* once every byte is read they are all of them; these are the records the  *)
(* body was written from.                                                   *)
C28_IncrementsRoundTrip ==
    /\ OneIncrement(sse.body) = sse.sent
    /\ Len(sse.lines) <= Len(sse.sent)
    /\ sse.lines = SubSeq(OneIncrement(sse.body), 1, Len(sse.lines))
    /\ Sum(sse.reads) = Len(sse.body) => sse.lines = OneIncrement(sse.body)

(* A body of two records came in three reads or more, one cut falling       *)
(* between the two "\n" of the first separator and one inside a two-byte    *)
(* character, and both records were yielded.                                *)
C28_Witness ==
    /\ sse.done
    /\ Len(sse.sent) = 2
    /\ Len(sse.reads) >= 3
    /\ \E i \in 1..Len(sse.reads) :
          LET at == Sum(SubSeq(sse.reads, 1, i)) IN
          /\ at \in 1..(Len(sse.body) - 1)
          /\ sse.body[at] = LF /\ sse.body[at + 1] = LF
    /\ \E i \in 1..Len(sse.reads) :
          LET at == Sum(SubSeq(sse.reads, 1, i)) IN
          /\ at \in 1..(Len(sse.body) - 1)
          /\ sse.body[at] = "C3"
    /\ sse.lines = sse.sent

(* C29: after cancelStream() has set the cancellation flag, the cancelled   *)
(* read loop starts no new read: the read that was in flight settles, its   *)
(* events are processed, and the loop is left.                              *)
C29_NoReadAfterCancel ==
    [][\A t \in Turns :
          ( /\ turns[t].mark = "cancelled"
            /\ turns[t].pc = "read"
            /\ op'.turn = t
            /\ turns'[t] # turns[t] )
          => turns'[t].pc # "read"]_vars

(* C30: once a done event has been decoded on a stream, the stream          *)
(* dispatches no further intent and processStream returns without error:    *)
(* the events that would follow done in the same read are not processed,    *)
(* the read that holds done makes processStream return with no error        *)
(* intent, and the call afterwards makes only the step that resumes it      *)
(* after processStream, which dispatches nothing.                           *)
C30_DoneEndsStream ==
    [][\A t \in Turns :
          /\ (turns[t].pc = "read" /\ turns[t].srv = "tail")
             => \A e \in ServerNext(t, "cid") \cup ServerNext(t, "body")
                             \cup ServerNext(t, "tail") :
                   LET alone  == ProcessLines(LoopCtx(t), t, <<Ev("done")>>)
                       before == ProcessLines(LoopCtx(t), t, <<Ev("done"), e>>)
                   IN /\ before = alone
                      /\ alone.em = <<>>
                      /\ alone.st = state
                      /\ alone.out = "return"
          /\ (turns[t].srv # "end" /\ turns'[t].srv = "end")
             => /\ turns'[t].pc = "returned"
                /\ \A k \in 1..Len(emitted') :
                      emitted'[k].intent.type \notin {"CHAT_ERROR", "AUTH_TOKEN_EXPIRED"}
          /\ turns[t].srv = "end"
             => /\ \/ turns'[t].pc = turns[t].pc
                   \/ turns[t].pc = "returned" /\ turns'[t].pc = "done"
                /\ \A k \in 1..Len(emitted') : emitted'[k].by # t]_vars

(* The read that held the done event of a stream has been processed, after  *)
(* a usage event of an earlier read, and processStream has returned.        *)
C30_Witness ==
    \E t \in Turns :
        /\ op = [name |-> "read", turn |-> t]
        /\ turns[t].srv = "end"
        /\ turns[t].pc = "returned"
        /\ emitted = <<>>
        /\ state.chat.status = "idle"
        /\ state.chat.error = NoError

(* The conversation-id updates among the intents ems: the CHAT_START_STREAM *)
(* intents that the 'conversationId' case of call t dispatched.             *)
ConversationUpdates(ems, t) ==
    {k \in 1..Len(ems) : /\ ems[k].by = t
                         /\ ems[k].cause = "event"
                         /\ ems[k].intent.type = "CHAT_START_STREAM"}

(* The read of call t that this step settles holds the conversationId       *)
(* event of its stream.                                                     *)
ConversationIdDelivered(t) ==
    /\ op'.turn = t
    /\ op'.name = "read"
    /\ turns[t].srv = "cid"
    /\ turns'[t].srv \in {"body", "tail", "end"}

(* C31 as stated: the first conversationId event of a stream is accepted,   *)
(* dispatching CHAT_START_STREAM with its id.                               *)
C31_FirstConversationIdAccepted ==
    [][\A t \in Turns :
          ConversationIdDelivered(t)
          => \E k \in ConversationUpdates(emitted', t) :
                emitted'[k].intent.conversationId = ServerConversationId(t)]_vars

(* C31 amended: a conversationId event is accepted, dispatching             *)
(* CHAT_START_STREAM with its id, exactly when the call was started without *)
(* a conversation id and its stream has accepted none before; every other   *)
(* conversationId event is ignored, so a stream dispatches a                *)
(* conversation-id update at most once.                                     *)
C31_ConversationIdAcceptedOnce ==
    [][\A t \in Turns :
          /\ ConversationIdDelivered(t)
             => IF Falsy(turns[t].conv)
                THEN \E k \in ConversationUpdates(emitted', t) :
                        /\ emitted'[k].intent.conversationId = ServerConversationId(t)
                        /\ ConversationUpdates(emitted', t) = {k}
                ELSE ConversationUpdates(emitted', t) = {}
          /\ ~Falsy(turns[t].newConversationId)
             => ConversationUpdates(emitted', t) = {}
          /\ turns[t].pc = "read"
             => LET first  == [Ev("conversationId") EXCEPT !.conversationId = "conv-x"]
                    second == [Ev("conversationId") EXCEPT !.conversationId = "conv-y"]
                    both   == ProcessLines(LoopCtx(t), t, <<first, second>>)
                IN IF Falsy(turns[t].newConversationId)
                   THEN /\ Cardinality(ConversationUpdates(both.em, t)) = 1
                        /\ both.em[1].intent.conversationId = "conv-x"
                        /\ both.newConversationId = "conv-x"
                   ELSE /\ both.em = <<>>
                        /\ both.newConversationId = turns[t].newConversationId]_vars

(* The conversationId event of a call that continues a conversation has     *)
(* been read and ignored.                                                   *)
C31_Witness ==
    \E t \in Turns :
        /\ op = [name |-> "read", turn |-> t]
        /\ ~Falsy(turns[t].conv)
        /\ turns[t].srv = "body"
        /\ turns[t].pc = "read"
        /\ emitted = <<>>
        /\ state.chat.currentConversationId = turns[t].conv

(* C32: an abort that reaches a call while the cancellation flag is not set *)
(* is escalated, whether it rejects the read of the loop or the initiating  *)
(* request: the call dispatches CHAT_ERROR and the state is not left in     *)
(* chat.status = 'streaming'.                                               *)
C32_UnflaggedAbortEscalated ==
    [][\A t \in Turns :
          ( /\ op'.turn = t
            /\ op'.name \in {"fetch", "read"}
            /\ turns[t].pc \in {"fetch", "read"}
            /\ \/ turns'[t].pc = "aborted"
               \/ turns'[t].pc = "thrown" /\ turns'[t].err = ThrownAbort
            /\ ~streamCancelled )
          => /\ \E k \in 1..Len(emitted') :
                   /\ emitted'[k].by = t
                   /\ emitted'[k].intent.type = "CHAT_ERROR"
             /\ state'.chat.status # "streaming"]_vars

(* The records a body may hold for call t, recognised or not. *)
AnyRecord(t) ==
    ServerNext(t, "cid") \cup ServerNext(t, "body") \cup ServerNext(t, "tail")
        \cup Unrecognised

(* C33: a record that gives no event, or an event of no recognised type,    *)
(* dispatches no intent and does not end the read loop, the records after   *)
(* it being processed as if it were not there; only a record carrying       *)
(* data.error or of type error ends the stream, with a STREAM error.        *)
C33_UnrecognisedRecordsSkipped ==
    [][\A t \in Turns :
          /\ turns[t].pc = "read"
             => /\ \A x \in {NotAnEvent, UnknownEvent} :
                      /\ ProcessLines(LoopCtx(t), t, <<x>>) = LoopCtx(t)
                      /\ \A e \in AnyRecord(t) :
                            ProcessLines(LoopCtx(t), t, <<x, e>>)
                                = ProcessLines(LoopCtx(t), t, <<e>>)
                /\ \A e \in AnyRecord(t) :
                      LET c == ProcessLines(LoopCtx(t), t, <<e>>) IN
                      /\ c.out = "throw" <=> (e.dataError \/ e.type = "error")
                      /\ c.out = "throw"
                         => /\ Len(c.em) = 1
                            /\ c.em[1].intent.type = "CHAT_ERROR"
                            /\ c.em[1].intent.error.code = "STREAM"
          /\ ( /\ op'.turn = t
               /\ op'.name = "read"
               /\ budget'.noise < budget.noise
               /\ \A k \in 1..Len(emitted') :
                     emitted'[k].intent.type # "CHAT_ERROR" )
             => turns'[t].pc \in {"read", "returned"}]_vars

(* A body began with an unrecognised record, read alone; the next read held *)
(* the conversationId event and a chunk, and both were processed.           *)
C33_Witness ==
    \E t \in Turns :
        /\ op = [name |-> "read", turn |-> t]
        /\ budget.noise = 0
        /\ budget.events = 0
        /\ turns[t].pc = "read"
        /\ EmittedTypes = <<"CHAT_START_STREAM", "CHAT_STREAM_CHUNK">>
        /\ \A u \in Turns \ {t} : turns[u].pc = "new"
        /\ state.chat.status = "streaming"
        /\ state.chat.error = NoError

(* The intents of the step just taken that the catch block of              *)
(* processStream dispatched for call t (line 689).                          *)
StreamCatchIntents(t) ==
    {k \in 1..Len(emitted') :
        /\ emitted'[k].by = t
        /\ emitted'[k].cause \in {"rethrow", "transport", "abort"}}

(* What the loop of call t threw in the step just taken, as the catch block *)
(* of processStream reported it.                                            *)
LoopThrew(k) ==
    CASE emitted'[k].cause = "abort" -> "AbortError"
      [] emitted'[k].cause = "transport" -> "TypeError"
      [] OTHER -> "AppError"

(* C34: on every exit of the read loop the lock of the reader is released   *)
(* exactly once, and a failure of the release does not change the outcome.  *)
(* A call whose loop is running has not released, a call that has left its  *)
(* loop (processStream returned or threw, the call resumed or not) has      *)
(* released once, a call that never had a reader never releases; and in the *)
(* step that releases, whether releaseLock throws or not, processStream     *)
(* returns exactly if its catch block reported nothing, and else rejects    *)
(* with what the loop threw.                                                *)
C34_LockReleasedOnce ==
    /\ [](\A t \in Turns :
            /\ turns[t].released
                  = IF turns[t].locked /\ turns[t].pc # "read" THEN 1 ELSE 0
            /\ turns[t].locked
                  => turns[t].pc \in {"read", "returned", "thrown"} \/ Ended(turns[t]))
    /\ [][\A t \in Turns :
            turns'[t].released # turns[t].released
            => IF StreamCatchIntents(t) = {}
               THEN /\ turns'[t].pc = "returned"
                    /\ turns'[t].err = turns[t].err
               ELSE /\ turns'[t].pc = "thrown"
                    /\ \A k \in StreamCatchIntents(t) :
                          turns'[t].err.name = LoopThrew(k)]_vars

(* One call left its loop on an error of the stream and its releaseLock     *)
(* threw: the call ended with the error of the stream.  Another left on its *)
(* done event and released its lock.                                        *)
C34_Witness ==
    \E t, u \in Turns :
        /\ turns[t].locked /\ turns[t].pc = "failed" /\ turns[t].released = 1
        /\ turns[t].releaseFailed
        /\ turns[t].err.name = "AppError"
        /\ turns[u].locked /\ turns[u].pc = "done" /\ turns[u].srv = "end"
        /\ turns[u].released = 1

(* C35: when the response body of a call ends, by its natural end or by a   *)
(* done event, without cancellation and without error, the state is no      *)
(* longer 'streaming', chat.streamingMessageId is undefined and the input   *)
(* is enabled, even if the stream carried no usage event.  Stated for a     *)
(* call that is the only one made so far.                                   *)
C35_BodyEndLeavesStreaming ==
    [][\A t \in Turns :
          ( /\ op'.turn = t
            /\ op'.name = "read"
            /\ turns[t].pc = "read"
            /\ turns'[t].pc = "returned"
            /\ ~streamCancelled
            /\ turns[t].sig \notin aborted
            /\ state'.chat.error = NoError
            /\ \A u \in Turns \ {t} : turns[u].pc = "new" )
          => /\ state'.chat.status # "streaming"
             /\ state'.chat.streamingMessageId = Undefined
             /\ state'.ui.chatInputEnabled]_vars

(* C36: while the request or the read loop of a call is in progress,       *)
(* currentStreamAbort is the controller of that call and stays so: the      *)
(* late settling of a request or a read of another call, and its resuming   *)
(* after processStream, neither sets currentStreamAbort to undefined nor    *)
(* resets streamCancelled for it.                                           *)
C36_ControllerOfCallInProgress ==
    [][\A t \in Turns :
          ( /\ Active(turns[t])
            /\ currentStreamAbort = turns[t].sig
            /\ op'.turn \in Turns \ {t}
            /\ op'.name \in {"fetch", "read", "resume", "catch"} )
          => /\ currentStreamAbort' = turns[t].sig
             /\ streamCancelled' = streamCancelled]_vars

(* C37: after clearChat() was called while a stream is in flight, the       *)
(* events that the stream still delivers (conversationId, chunk,            *)
(* annotations, usage) change neither chat.status, chat.streamingMessageId, *)
(* chat.currentConversationId, chat.lastResponseId nor chat.messages: the   *)
(* chat substate stays as clearChat() left it.                              *)
C37_ClearedChatStaysCleared ==
    [][\A t \in Turns :
          ( /\ op' = [name |-> "read", turn |-> t]
            /\ turns[t].pc = "read"
            /\ turns[t].messageId # Undefined
            /\ turns[t].slot = 0
            /\ state.chat = initialAppState.chat
            /\ \A k \in 1..Len(emitted') :
                  emitted'[k].intent.type \in
                      {"CHAT_START_STREAM", "CHAT_STREAM_CHUNK",
                       "CHAT_STREAM_ANNOTATIONS", "CHAT_STREAM_COMPLETE"} )
          => /\ state'.chat.status = state.chat.status
             /\ state'.chat.streamingMessageId = state.chat.streamingMessageId
             /\ state'.chat.currentConversationId = state.chat.currentConversationId
             /\ state'.chat.lastResponseId = state.chat.lastResponseId
             /\ state'.chat.messages = state.chat.messages]_vars

(* C38: in every reachable state, if chat.streamingMessageId is defined     *)
(* then chat.messages holds exactly one message with that id, its role is   *)
(* 'assistant', and chat.status is 'streaming'.                             *)
C38_StreamingMessageExists ==
    state.chat.streamingMessageId # Undefined
    => /\ Cardinality({i \in 1..Len(state.chat.messages) :
                         state.chat.messages[i].id = state.chat.streamingMessageId}) = 1
       /\ \A i \in 1..Len(state.chat.messages) :
             state.chat.messages[i].id = state.chat.streamingMessageId
             => state.chat.messages[i].role = "assistant"
       /\ state.chat.status = "streaming"

(* C39: in every reachable state, chat.status = 'streaming' implies that    *)
(* chat.streamingMessageId is defined and ui.chatInputEnabled is false, and *)
(* chat.status = 'error' implies that chat.error is not null.               *)
C39_StatusInvariant ==
    /\ state.chat.status = "streaming"
       => /\ state.chat.streamingMessageId # Undefined
          /\ ~state.ui.chatInputEnabled
    /\ state.chat.status = "error" => state.chat.error # NoError

(* C39 witness: a sequence of intents no call of ChatService produces has   *)
(* reached status 'streaming' (the streaming id names no message), and the  *)
(* step was a dispatch.                                                     *)
C39_Witness ==
    /\ op.name = "dispatch"
    /\ state.chat.status = "streaming"
    /\ FindIndex(state.chat.messages, state.chat.streamingMessageId) = 0
    /\ Len(state.chat.messages) = MaxIntentMessages

(* C39 witness of the second half: an error is shown after a dispatch. *)
C39_WitnessError ==
    /\ op.name = "dispatch"
    /\ state.chat.status = "error"
    /\ state.chat.error.code = "AUTH"

(* The number of events of the type in the response. *)
Written(type) ==
    Cardinality({i \in 1..Len(endpoint.written) : endpoint.written[i] = type})

(* The conversationId event precedes every chunk, annotations and           *)
(* mcpApprovalRequest event.                                                *)
ConversationIdFirst ==
    \A i \in 1..Len(endpoint.written) :
        endpoint.written[i] \in {"chunk", "annotations", "mcpApprovalRequest"}
        => \E j \in 1..(i - 1) : endpoint.written[j] = "conversationId"

(* A run that completed wrote one usage and one done event, the last two. *)
SuccessEndsUsageDone ==
    endpoint.result = "completed"
    => LET n == Len(endpoint.written) IN
       /\ n >= 2
       /\ endpoint.written[n - 1] = "usage"
       /\ endpoint.written[n] = "done"
       /\ Written("usage") = 1
       /\ Written("done") = 1
       /\ Written("error") = 0

(* The handler has returned, or an exception has left it, after a failure. *)
FailedRun == endpoint.pc = "end" /\ endpoint.result \in {"failed", "unhandled"}

(* C40 as stated: conversationId comes before the events of the answer, a   *)
(* successful run ends with one usage then one done event, and a failed run *)
(* ends with one error event with no usage or done after it.                *)
C40_EndpointEventOrder ==
    /\ ConversationIdFirst
    /\ SuccessEndsUsageDone
    /\ FailedRun
       => /\ Written("error") = 1
          /\ endpoint.written[Len(endpoint.written)] = "error"

(* C40 amended: conversationId comes before the events of the answer, a     *)
(* successful run ends with one usage then one done event, and a failed run *)
(* writes at most one error event, nothing after it, and exactly one when   *)
(* the handler returns normally; when writing the error event throws, the   *)
(* run may end with no error event.                                         *)
C40_EndpointEventOrderAmended ==
    /\ ConversationIdFirst
    /\ SuccessEndsUsageDone
    /\ Written("error") <= 1
    /\ \A i \in 1..Len(endpoint.written) :
          endpoint.written[i] = "error" => i = Len(endpoint.written)
    /\ FailedRun /\ endpoint.result = "failed" => Written("error") = 1
    /\ Written("error") = 1 => FailedRun

(* C40 witness: a run failed after it had written the conversation id, an   *)
(* event of the answer and the usage event, and its error event is last.    *)
C40_Witness ==
    /\ FailedRun
    /\ Len(endpoint.written) >= 4
    /\ endpoint.written[1] = "conversationId"
    /\ Written("usage") = 1
    /\ endpoint.written[Len(endpoint.written)] = "error"

(* C40 witness of the successful run: three events of the answer, then      *)
(* usage and done.                                                          *)
C40_WitnessSuccess ==
    /\ endpoint.result = "completed"
    /\ Len(endpoint.written) = MaxItems + 3

====
